---- MODULE Spec2Model ----
(***************************************************************************)
(* Routing / optimisation core of the logistics simulation:                *)
(*   dijkstra      (src/src/lib/algorithms/dijkstra.ts)                    *)
(*   edmondsKarp   (src/src/lib/algorithms/max-flow.ts)                    *)
(*   solveTsp      (src/unnamed/part_008, the five-argument tour builder)  *)
(*   strategy 3    (src/src/app/checkout/page.tsx, warehouse batching)     *)
(* Every algorithm is an operator computed the way the code computes it;   *)
(* the state machines draw a graph (and orders) at Init and apply the      *)
(* operations to it.                                                       *)
(***************************************************************************)
EXTENDS Integers, Sequences, FiniteSets, TLC

VARIABLES
    edges,      \* the edge list handed to the algorithms (currentEdges)
    call,       \* the operation last invoked, with its arguments
    result,     \* what that operation returned
    ek,         \* the running state of edmondsKarp (residual matrix, flow, pc)
    orders,     \* allSimulatedOrders: the main user's order, then the others
    combinedResult, \* the comparison result stored by runCombinedOptimization, or null
    activeMap,      \* the id of the map view shown, or null
    isTrafficSimulated, \* whether currentEdges carries simulated traffic
    effectPending,  \* the effect on [currentEdges] is scheduled and has not run yet
    edits,          \* the number of order edits made so far in the session
    run,            \* the four computations of one run, when they are scheduled apart
    isForecasting,  \* busy flag of the demand forecast request
    isPredicting,   \* busy flag of the delivery-time prediction request
    isOptimizing,   \* busy flag of the AI route request
    stockRebalance, \* output of forecastDemand, or null
    deliveryPredictions, \* output of predictDeliveryTimes, or null
    aiOptimizedRoute,    \* processed output of proposeOptimizedRoute, or null
    requests        \* the state of the request in flight to each AI flow

uiVars == <<isTrafficSimulated, effectPending, edits, run>>

aiVars == <<isForecasting, isPredicting, isOptimizing, stockRebalance, deliveryPredictions,
            aiOptimizedRoute, requests>>

pageRest == <<uiVars, aiVars>>

vars == <<edges, call, result, ek, orders, combinedResult, activeMap, uiVars, aiVars>>

-----------------------------------------------------------------------------
(* Bounds of the model *)

MaxWeight == 2      \* edge weights range over 0..MaxWeight
MaxEdges == 4       \* edge lists of the shortest-path family hold at most this many edges
MaxCap == 2         \* edge capacities range over 1..MaxCap
MaxFlowEdges == 5   \* edge lists of the max-flow family hold at most this many edges
MaxTourEdges == 3   \* edge lists of the tour family hold at most this many edges
MaxTourWeight == 2  \* edge weights of the tour family range over 1..MaxTourWeight
MaxWarehouses == 1  \* warehousesToVisit holds at most this many identifiers
MaxCustomers == 2   \* customersToVisit holds at most this many customers
MaxQty == 11        \* the largest quantity of one product in one order
MaxOtherOrders == 1 \* the orders of other users next to the main user's
MaxPageEdges == 2   \* edge lists of the page family hold at most this many edges
MaxPageWeight == 2  \* edge weights of the page family range over 1..MaxPageWeight
MaxPageItems == 2   \* the orders of the page family hold at most this many items
MaxRateStep == 2    \* the rates are raised by 1..MaxRateStep cents
MaxEdits == 2       \* a session holds at most this many edits of the order form
MaxSlowed == 1      \* simulated traffic slows at most this many roads
MaxTrafficFactor == 2 \* simulated traffic multiplies a weight by 2..MaxTrafficFactor
MaxDraw == 10       \* the random capacities of a load are drawn in one of 1 + MaxDraw ways

-----------------------------------------------------------------------------
(* GraphModel *)

\* graph.nodes: the node identifiers, in list order
Nodes == <<"warehouse-a", "warehouse-b", "loc1", "loc2">>

\* the nodes whose id starts with 'warehouse', and the delivery locations
WarehouseNodes == {"warehouse-a", "warehouse-b"}

LocationNodes == {"loc1", "loc2"}

NodeSet == {Nodes[i] : i \in 1..Len(Nodes)}

\* an identifier that is no node of the graph
Unknown == "zz"

Ids == NodeSet \cup {Unknown}

\* JavaScript's Infinity: larger than every finite distance of the model
Infinity == 1000000

\* null / undefined predecessor
Null == "null"

\* a + b in floating point, where Infinity + x = Infinity
Plus(a, b) == IF a = Infinity \/ b = Infinity THEN Infinity ELSE a + b

\* the unordered node pairs, in the canonical order (i, j), i < j
Pairs ==
    LET n == Len(Nodes)
        idx == {<<i, j>> \in (1..n) \X (1..n) : i < j}
        rank(p) == Cardinality({q \in idx : q[1] < p[1] \/ (q[1] = p[1] /\ q[2] < p[2])}) + 1
    IN [k \in 1..Cardinality(idx) |->
           LET p == CHOOSE p \in idx : rank(p) = k IN <<Nodes[p[1]], Nodes[p[2]]>>]

\* the members of a set of numbers, ascending
RECURSIVE Ascending(_)
Ascending(S) ==
    IF S = {} THEN <<>>
    ELSE LET m == CHOOSE x \in S : \A y \in S : x <= y
         IN <<m>> \o Ascending(S \ {m})

\* Edge: {source, target, weight, capacity}
Edge(p, w, c) == [source |-> p[1], target |-> p[2], weight |-> w, capacity |-> c]

\* the edge lists over the pairs S, weights W and capacities C: every edge joins
\* two distinct nodes and no pair is listed twice (the data model's edge invariant)
EdgeLists(S, W, C) ==
    LET s == Ascending(S)
    IN {[i \in 1..Len(s) |-> Edge(Pairs[s[i]], w[s[i]], c[s[i]])] :
            w \in [S -> W], c \in [S -> C]}

\* the same roads listed in the opposite order, each with its endpoints swapped
Reversed(es) ==
    [i \in 1..Len(es) |->
        LET e == es[Len(es) + 1 - i]
        IN [source |-> e.target, target |-> e.source,
            weight |-> e.weight, capacity |-> e.capacity]]

-----------------------------------------------------------------------------
(* ShortestPath: dijkstra *)

NotFound == [found |-> FALSE]

Found(path, distance) == [found |-> TRUE, path |-> path, distance |-> distance]

\* faulty variant of dijkstraAdj: the edge is pushed for its source only
RECURSIVE dijkstraAdjDirected(_, _, _)
dijkstraAdjDirected(es, n, i) ==
    IF i > Len(es) THEN <<>>
    ELSE (IF es[i].source = n
          THEN <<[node |-> es[i].target, weight |-> es[i].weight]>> ELSE <<>>)
             \o dijkstraAdjDirected(es, n, i + 1)

\* adj[n]: the {node, weight} entries pushed for n, in edge order
RECURSIVE dijkstraAdj(_, _, _)
dijkstraAdj(es, n, i) ==
    IF i > Len(es) THEN <<>>
    ELSE LET e == es[i]
             fwd == IF e.source = n THEN <<[node |-> e.target, weight |-> e.weight]>> ELSE <<>>
             bwd == IF e.target = n THEN <<[node |-> e.source, weight |-> e.weight]>> ELSE <<>>
         IN fwd \o bwd \o dijkstraAdj(es, n, i + 1)

\* Object.keys(pq).reduce((a, b) => pq[a] < pq[b] ? a : b)
RECURSIVE reduceMin(_, _, _, _)
reduceMin(keys, pq, acc, i) ==
    IF i > Len(keys) THEN acc
    ELSE reduceMin(keys, pq, IF pq[acc] < pq[keys[i]] THEN acc ELSE keys[i], i + 1)

\* faulty variant of pqMin: the first key is taken, whatever its priority
pqMinFirst(keys, pq) == keys[1]

pqMin(keys, pq) == reduceMin(keys, pq, keys[1], 2)

\* delete pq[u]
pqDelete(keys, u) == SelectSeq(keys, LAMBDA k : k # u)

\* pq[k] = v: an existing key keeps its place, a new key goes last
pqSet(keys, k) == IF \E i \in 1..Len(keys) : keys[i] = k THEN keys ELSE Append(keys, k)

\* adj[u].forEach(neighbor => { alt = ...; if (alt < distances[...]) {...} })
RECURSIVE dijkstraRelax(_, _, _, _)
dijkstraRelax(nbrs, u, st, i) ==
    IF i > Len(nbrs) THEN st
    ELSE LET nb == nbrs[i]
             alt == Plus(st.distances[u], nb.weight)
         IN IF alt < st.distances[nb.node]
            THEN dijkstraRelax(nbrs, u,
                     [distances |-> [st.distances EXCEPT ![nb.node] = alt],
                      prev |-> [st.prev EXCEPT ![nb.node] = u],
                      keys |-> pqSet(st.keys, nb.node),
                      pq |-> [st.pq EXCEPT ![nb.node] = alt]], i + 1)
            ELSE dijkstraRelax(nbrs, u, st, i + 1)

\* while (current) { path.unshift(current); current = prev[current]; }
RECURSIVE pathBack(_, _, _)
pathBack(prev, current, acc) ==
    IF current = Null THEN acc
    ELSE pathBack(prev, prev[current], <<current>> \o acc)

\* the while loop of dijkstra
RECURSIVE dijkstraLoop(_, _, _, _)
dijkstraLoop(es, startId, endId, st) ==
    IF st.keys = <<>> THEN NotFound
    ELSE LET u == pqMin(st.keys, st.pq)
             st1 == [st EXCEPT !.keys = pqDelete(st.keys, u)]
         IN IF u = endId
            THEN LET path == pathBack(st.prev, endId, <<>>)
                 IN IF path[1] = startId
                    THEN Found(path, st.distances[endId])
                    ELSE NotFound
            ELSE IF st.distances[u] = Infinity THEN NotFound
            ELSE dijkstraLoop(es, startId, endId,
                     IF u \in NodeSet
                     THEN dijkstraRelax(dijkstraAdj(es, u, 1), u, st1, 1)
                     ELSE st1)

\* dijkstra(nodes, edges, startId, endId)
dijkstra(es, startId, endId) ==
    dijkstraLoop(es, startId, endId,
        [distances |-> [n \in Ids |-> IF n = startId THEN 0 ELSE Infinity],
         prev |-> [n \in Ids |-> Null],
         keys |-> pqSet(Nodes, startId),
         pq |-> [n \in Ids |-> IF n = startId THEN 0 ELSE Infinity]])

-----------------------------------------------------------------------------
(* TourConstructor: findShortestPath and solveTsp *)

\* adj[n] of solveTsp, an object keyed by neighbour: Object.keys order is the
\* order of first insertion, and a later edge over the same pair overwrites the weight
RECURSIVE tspAdj(_, _, _, _)
tspAdj(es, n, acc, i) ==
    IF i > Len(es) THEN acc
    ELSE LET put(a, k, w) ==
                 IF \E j \in 1..Len(a) : a[j].node = k
                 THEN [j \in 1..Len(a) |-> IF a[j].node = k THEN [node |-> k, weight |-> w] ELSE a[j]]
                 ELSE Append(a, [node |-> k, weight |-> w])
             a1 == IF es[i].source = n THEN put(acc, es[i].target, es[i].weight) ELSE acc
             a2 == IF es[i].target = n THEN put(a1, es[i].source, es[i].weight) ELSE a1
         IN tspAdj(es, n, a2, i + 1)

\* faulty variant of NoLeg: a missing path is reported with distance 0
NoLegZero == [distance |-> 0, path |-> <<>>]

\* the leg returned when there is no path: { distance: Infinity, path: [] }
NoLeg == [distance |-> Infinity, path |-> <<>>]

\* the while loop of findShortestPath; it yields the maps as the loop leaves them
RECURSIVE fspLoop(_, _, _)
fspLoop(es, toNodeId, st) ==
    IF st.keys = <<>> THEN st
    ELSE LET u == pqMin(st.keys, st.pq)
             st1 == [st EXCEPT !.keys = pqDelete(st.keys, u)]
         IN IF u = toNodeId THEN st1
            ELSE fspLoop(es, toNodeId, dijkstraRelax(tspAdj(es, u, <<>>, 1), u, st1, 1))

\* findShortestPath(fromNodeId, toNodeId, nodes, adj)
findShortestPath(es, fromNodeId, toNodeId) ==
    IF fromNodeId \notin NodeSet THEN NoLeg
    ELSE LET st == fspLoop(es, toNodeId,
                       [distances |-> [n \in Ids |-> IF n = fromNodeId THEN 0 ELSE Infinity],
                        prev |-> [n \in Ids |-> Null],
                        keys |-> Nodes,
                        pq |-> [n \in Ids |-> IF n = fromNodeId THEN 0 ELSE Infinity]])
             path == pathBack(st.prev, toNodeId, <<>>)
         IN IF path[1] = fromNodeId
            THEN [distance |-> st.distances[toNodeId], path |-> path]
            ELSE NoLeg

\* segmentPath.slice(1)
Slice1(p) == IF p = <<>> THEN <<>> ELSE Tail(p)

\* faulty variant of tspSplice: only the stop reached is pushed, not the segment leading to it
tspSpliceStopOnly(finalPath, segmentPath) ==
    IF Len(segmentPath) <= 1 THEN finalPath
    ELSE Append(finalPath, segmentPath[Len(segmentPath)])

\* finalPath.push(...segmentPath.slice(1))
tspSplice(finalPath, segmentPath) == finalPath \o Slice1(segmentPath)

\* distMatrix[fromNode][toNode]
distMatrix(es, fromNode, toNode) ==
    IF fromNode = toNode THEN [distance |-> 0, path |-> <<fromNode>>]
    ELSE findShortestPath(es, fromNode, toNode)

\* new Set(list): the distinct members in the order of their first occurrence
RECURSIVE SetOf(_)
SetOf(list) ==
    IF list = <<>> THEN <<>>
    ELSE LET init == SetOf(SubSeq(list, 1, Len(list) - 1))
             x == list[Len(list)]
         IN IF \E i \in 1..Len(init) : init[i] = x THEN init ELSE Append(init, x)

\* faulty variant of tspNearest: a leg of infinite distance is accepted as the nearest
RECURSIVE tspNearestAnyLeg(_, _, _, _, _)
tspNearestAnyLeg(es, currentLoc, pool, best, i) ==
    IF i > Len(pool) THEN best
    ELSE LET leg == distMatrix(es, currentLoc, pool[i])
         IN tspNearestAnyLeg(es, currentLoc, pool,
                IF leg.distance <= best.minDistance
                THEN [nearest |-> pool[i], minDistance |-> leg.distance]
                ELSE best, i + 1)

\* faulty variant of tspNearest: <= in place of <, so the last of the nearest
\* stops is kept
RECURSIVE tspNearestLastTie(_, _, _, _, _)
tspNearestLastTie(es, currentLoc, pool, best, i) ==
    IF i > Len(pool) THEN best
    ELSE LET leg == distMatrix(es, currentLoc, pool[i])
         IN tspNearestLastTie(es, currentLoc, pool,
                IF leg.distance <= best.minDistance /\ leg.distance < Infinity
                THEN [nearest |-> pool[i], minDistance |-> leg.distance]
                ELSE best, i + 1)

\* pool.forEach(x => { leg = distMatrix[currentLoc][x]; if (leg.distance < minDistance) {...} })
RECURSIVE tspNearest(_, _, _, _, _)
tspNearest(es, currentLoc, pool, best, i) ==
    IF i > Len(pool) THEN best
    ELSE LET leg == distMatrix(es, currentLoc, pool[i])
         IN tspNearest(es, currentLoc, pool,
                IF leg.distance < best.minDistance
                THEN [nearest |-> pool[i], minDistance |-> leg.distance]
                ELSE best, i + 1)

\* one nearest-neighbour while loop of solveTsp over the set `pool`
RECURSIVE tspPhase(_, _, _, _)
tspPhase(es, phase, pool, st) ==
    IF pool = <<>> THEN st
    ELSE LET pick == tspNearest(es, st.currentLoc, pool,
                                [nearest |-> Null, minDistance |-> Infinity], 1)
         IN IF pick.nearest = Null THEN st
            ELSE LET segmentPath == distMatrix(es, st.currentLoc, pick.nearest).path
                 IN tspPhase(es, phase, SelectSeq(pool, LAMBDA x : x # pick.nearest),
                        [path |-> tspSplice(st.path, segmentPath),
                         distance |-> st.distance + pick.minDistance,
                         currentLoc |-> pick.nearest,
                         stops |-> Append(st.stops, [stop |-> pick.nearest, phase |-> phase,
                                                     at |-> Len(tspSplice(st.path, segmentPath))])])

\* the addresses of the customers with the given time window
windowOf(customersToVisit, timeWindow) ==
    LET sel == SelectSeq(customersToVisit, LAMBDA c : c.timeWindow = timeWindow)
    IN SetOf([i \in 1..Len(sel) |-> sel[i].address])

\* faulty variant of tspVisit: the customers are served from one pool, whatever their window
tspVisitOnePool(es, startDepot, warehousesToVisit, customersToVisit) ==
    tspPhase(es, "remaining",
        SetOf([i \in 1..Len(customersToVisit) |-> customersToVisit[i].address]),
        tspPhase(es, "pickup", SetOf(warehousesToVisit),
            [path |-> <<startDepot>>, distance |-> 0, currentLoc |-> startDepot,
             stops |-> <<>>]))

\* faulty variant of tspVisit: the afternoon customers are served before the
\* any-time customers
tspVisitAfternoonFirst(es, startDepot, warehousesToVisit, customersToVisit) ==
    tspPhase(es, "remaining", windowOf(customersToVisit, "any"),
        tspPhase(es, "remaining", windowOf(customersToVisit, "afternoon"),
            tspPhase(es, "morning", windowOf(customersToVisit, "morning"),
                tspPhase(es, "pickup", SetOf(warehousesToVisit),
                    [path |-> <<startDepot>>, distance |-> 0, currentLoc |-> startDepot,
                     stops |-> <<>>]))))

\* solveTsp up to the return leg: phases 1 and 2. `stops` records, for each
\* stop selected, the phase and its position in the path
tspVisit(es, startDepot, warehousesToVisit, customersToVisit) ==
    LET st0 == [path |-> <<startDepot>>, distance |-> 0, currentLoc |-> startDepot,
                stops |-> <<>>]
        st1 == tspPhase(es, "pickup", SetOf(warehousesToVisit), st0)
        st2 == tspPhase(es, "morning", windowOf(customersToVisit, "morning"), st1)
    IN tspPhase(es, "remaining",
           SetOf(windowOf(customersToVisit, "afternoon") \o windowOf(customersToVisit, "any")),
           st2)

\* faulty variant of tspReturn: the return leg is inlined in the path and left out
\* of the distance
tspReturnUncharged(es, startDepot, st) ==
    LET returnLeg == distMatrix(es, st.currentLoc, startDepot)
    IN IF returnLeg.distance # Infinity
       THEN [path |-> tspSplice(st.path, returnLeg.path), distance |-> st.distance]
       ELSE [path |-> st.path, distance |-> st.distance]

\* faulty variant of tspReturn: the tour ends at its last stop
tspReturnOmitted(es, startDepot, st) == [path |-> st.path, distance |-> st.distance]

\* phase 3 of solveTsp: the return leg
tspReturn(es, startDepot, st) ==
    LET returnLeg == distMatrix(es, st.currentLoc, startDepot)
    IN IF returnLeg.distance # Infinity
       THEN [path |-> tspSplice(st.path, returnLeg.path),
             distance |-> st.distance + returnLeg.distance]
       ELSE [path |-> st.path, distance |-> st.distance]

\* faulty variant of solveTsp: the empty input is not treated apart
solveTspNoDegenerate(es, startDepot, warehousesToVisit, customersToVisit) ==
    tspReturn(es, startDepot, tspVisit(es, startDepot, warehousesToVisit, customersToVisit))

\* solveTsp(nodes, edges, startDepot, warehousesToVisit, customersToVisit)
solveTsp(es, startDepot, warehousesToVisit, customersToVisit) ==
    IF warehousesToVisit = <<>> /\ customersToVisit = <<>>
    THEN [path |-> <<startDepot, startDepot>>, distance |-> 0]
    ELSE tspReturn(es, startDepot,
             tspVisit(es, startDepot, warehousesToVisit, customersToVisit))

-----------------------------------------------------------------------------
(* Reference notions the claims are stated against *)

\* the undirected pairs joined by an edge, with the weights listed for them
WeightsOf(es, u, v) ==
    {es[i].weight : i \in {j \in 1..Len(es) :
        \/ (es[j].source = u /\ es[j].target = v)
        \/ (es[j].source = v /\ es[j].target = u)}}

Adjacent(es, u, v) == WeightsOf(es, u, v) # {}

MinOf(S) == CHOOSE x \in S : \A y \in S : x <= y

\* sequences of pairwise distinct nodes
SimpleSeqs ==
    UNION {{s \in [1..k -> NodeSet] : \A i, j \in 1..k : i # j => s[i] # s[j]} :
              k \in 1..Len(Nodes)}

RECURSIVE WalkWeight(_, _, _)
WalkWeight(es, p, i) ==
    IF i >= Len(p) THEN 0
    ELSE MinOf(WeightsOf(es, p[i], p[i + 1])) + WalkWeight(es, p, i + 1)

IsWalk(es, p) == \A i \in 1..(Len(p) - 1) : Adjacent(es, p[i], p[i + 1])

\* the simple paths of the graph from s to t
PathsBetween(es, s, t) ==
    {p \in SimpleSeqs : p[1] = s /\ p[Len(p)] = t /\ IsWalk(es, p)}

Reachable(es, s, t) == PathsBetween(es, s, t) # {}

\* the minimum sum of edge weights over the paths from s to t
MinDistance(es, s, t) == MinOf({WalkWeight(es, p, 1) : p \in PathsBetween(es, s, t)})

-----------------------------------------------------------------------------
(* MaxFlowAnalyzer: bfs and edmondsKarp *)

\* nodeIndexMap.get(id): the position of id in the node list
nodeIndex(id) == CHOOSE i \in 1..Len(Nodes) : Nodes[i] = id

NodeIdx == 1..Len(Nodes)

\* faulty variant of ekCapacity: the capacity is set from source to target only
RECURSIVE ekCapacityDirected(_, _, _)
ekCapacityDirected(es, cap, i) ==
    IF i > Len(es) THEN cap
    ELSE ekCapacityDirected(es,
             [cap EXCEPT ![nodeIndex(es[i].source)][nodeIndex(es[i].target)] = es[i].capacity],
             i + 1)

\* the for loop over the edges: capacity[u][v] = capacity[v][u] = edge.capacity
RECURSIVE ekCapacity(_, _, _)
ekCapacity(es, cap, i) ==
    IF i > Len(es) THEN cap
    ELSE LET u == nodeIndex(es[i].source)
             v == nodeIndex(es[i].target)
             c1 == [cap EXCEPT ![u][v] = es[i].capacity]
         IN ekCapacity(es, [c1 EXCEPT ![v][u] = es[i].capacity], i + 1)

\* adj[u]: the neighbour indices pushed for u, in edge order
RECURSIVE ekAdj(_, _, _)
ekAdj(es, u, i) ==
    IF i > Len(es) THEN <<>>
    ELSE LET s == nodeIndex(es[i].source)
             t == nodeIndex(es[i].target)
         IN (IF s = u THEN <<t>> ELSE <<>>) \o (IF t = u THEN <<s>> ELSE <<>>)
                \o ekAdj(es, u, i + 1)

\* faulty variant of bfsScan: a neighbour is taken whatever the residual capacity
RECURSIVE bfsScanAnyCapacity(_, _, _, _, _, _)
bfsScanAnyCapacity(capacity, nbrs, u, sink, st, i) ==
    IF i > Len(nbrs) \/ st.found THEN st
    ELSE LET v == nbrs[i]
         IN IF ~st.visited[v]
            THEN bfsScanAnyCapacity(capacity, nbrs, u, sink,
                     [queue |-> Append(st.queue, v),
                      visited |-> [st.visited EXCEPT ![v] = TRUE],
                      parent |-> [st.parent EXCEPT ![v] = u],
                      found |-> (v = sink)], i + 1)
            ELSE bfsScanAnyCapacity(capacity, nbrs, u, sink, st, i + 1)

\* for (const v of adj[u]) { if (!visited[v] && capacity[u][v] > 0) { ... } }
RECURSIVE bfsScan(_, _, _, _, _, _)
bfsScan(capacity, nbrs, u, sink, st, i) ==
    IF i > Len(nbrs) \/ st.found THEN st
    ELSE LET v == nbrs[i]
         IN IF ~st.visited[v] /\ capacity[u][v] > 0
            THEN bfsScan(capacity, nbrs, u, sink,
                     [queue |-> Append(st.queue, v),
                      visited |-> [st.visited EXCEPT ![v] = TRUE],
                      parent |-> [st.parent EXCEPT ![v] = u],
                      found |-> (v = sink)], i + 1)
            ELSE bfsScan(capacity, nbrs, u, sink, st, i + 1)

\* while (queue.length > 0) { const u = queue.shift(); ... }
RECURSIVE bfsLoop(_, _, _, _)
bfsLoop(es, capacity, sink, st) ==
    IF st.found \/ st.queue = <<>> THEN st
    ELSE LET u == Head(st.queue)
         IN bfsLoop(es, capacity, sink,
                bfsScan(capacity, ekAdj(es, u, 1), u, sink,
                        [st EXCEPT !.queue = Tail(st.queue)], 1))

\* bfs(capacity, adj, source, sink, parent): .found is the value returned,
\* .parent the parent array as bfs leaves it
bfs(es, capacity, source, sink, parent) ==
    bfsLoop(es, capacity, sink,
        [queue |-> <<source>>,
         visited |-> [i \in NodeIdx |-> i = source],
         parent |-> [parent EXCEPT ![source] = -1],
         found |-> FALSE])

\* faulty variant of ekPathFlow: the bottleneck is read off the edge into the sink alone
ekPathFlowLastEdge(capacity, parent, source, v, pathFlow) ==
    IF v = source THEN pathFlow ELSE capacity[parent[v]][v]

\* for (let v = sink; v !== source; v = parent[v]) pathFlow = Math.min(pathFlow, capacity[u][v])
RECURSIVE ekPathFlow(_, _, _, _, _)
ekPathFlow(capacity, parent, source, v, pathFlow) ==
    IF v = source THEN pathFlow
    ELSE LET u == parent[v]
         IN ekPathFlow(capacity, parent, source, u,
                IF capacity[u][v] < pathFlow THEN capacity[u][v] ELSE pathFlow)

\* faulty variant of ekUpdate: the reverse residual capacity is not credited
RECURSIVE ekUpdateForwardOnly(_, _, _, _, _)
ekUpdateForwardOnly(capacity, parent, source, v, pathFlow) ==
    IF v = source THEN capacity
    ELSE LET u == parent[v]
         IN ekUpdateForwardOnly([capacity EXCEPT ![u][v] = @ - pathFlow],
                                parent, source, u, pathFlow)

\* for (let v = sink; v !== source; v = parent[v]) { capacity[u][v] -= pathFlow; capacity[v][u] += pathFlow }
RECURSIVE ekUpdate(_, _, _, _, _)
ekUpdate(capacity, parent, source, v, pathFlow) ==
    IF v = source THEN capacity
    ELSE LET u == parent[v]
             c1 == [capacity EXCEPT ![u][v] = @ - pathFlow]
         IN ekUpdate([c1 EXCEPT ![v][u] = @ + pathFlow], parent, source, u, pathFlow)

\* the locals of edmondsKarp before its while loop
ekInit(es, sourceId, sinkId) ==
    [pc |-> "loop",
     source |-> nodeIndex(sourceId),
     sink |-> nodeIndex(sinkId),
     capacity |-> ekCapacity(es, [u \in NodeIdx |-> [v \in NodeIdx |-> 0]], 1),
     parent |-> [i \in NodeIdx |-> 0],
     pathFlow |-> 0,
     maxFlow |-> 0]

\* one evaluation of the loop condition and, when it holds, one pass of the body
ekStep(es, st) ==
    LET b == bfs(es, st.capacity, st.source, st.sink, st.parent)
    IN IF b.found
       THEN LET pathFlow == ekPathFlow(st.capacity, b.parent, st.source, st.sink, Infinity)
            IN [st EXCEPT !.capacity = ekUpdate(st.capacity, b.parent, st.source, st.sink, pathFlow),
                          !.parent = b.parent,
                          !.pathFlow = pathFlow,
                          !.maxFlow = @ + pathFlow]
       ELSE [st EXCEPT !.pc = "done", !.parent = b.parent]

RECURSIVE ekRun(_, _)
ekRun(es, st) == IF st.pc = "done" THEN st.maxFlow ELSE ekRun(es, ekStep(es, st))

\* edmondsKarp(nodes, edges, sourceId, sinkId)
edmondsKarp(es, sourceId, sinkId) == ekRun(es, ekInit(es, sourceId, sinkId))

\* the capacity of the cut (S, complement of S): every edge with one end on each
\* side contributes its capacity
CutCapacity(es, S) ==
    LET crossing == {i \in 1..Len(es) : (es[i].source \in S) # (es[i].target \in S)}
        sum[T \in SUBSET crossing] ==
            IF T = {} THEN 0
            ELSE LET i == CHOOSE i \in T : TRUE IN es[i].capacity + sum[T \ {i}]
    IN sum[crossing]

\* the capacity of a minimum s-t cut
MinCut(es, s, t) ==
    MinOf({CutCapacity(es, S \cup {s}) : S \in SUBSET (NodeSet \ {s, t})})

-----------------------------------------------------------------------------
(* StrategyComposer: runCombinedOptimization *)

\* setCombinedResult(null)
NullResult == [present |-> FALSE]

\* $1.50 per kilometer, in cents
COST_PER_KM == 150

\* $50 fixed cost per truck dispatched, in cents
COST_PER_TRUCK == 5000

\* max 10 items per truck
TRUCK_CAPACITY == 10

\* the rate is left out of the product: the distance is charged at the built-in rate
routeCostAtFlatRate(distance, perKm, perTruck) == distance * COST_PER_KM + perTruck

\* (distance * perKm) + perTruck: the cost formula, whatever the two rates are
routeCostAt(distance, perKm, perTruck) == distance * perKm + perTruck

\* (distance * COST_PER_KM) + COST_PER_TRUCK
routeCost(distance) == routeCostAt(distance, COST_PER_KM, COST_PER_TRUCK)

\* list.reduce((acc, s) => acc + s.cost, 0) over the costs of a list
RECURSIVE SumSeq(_)
SumSeq(list) == IF list = <<>> THEN 0 ELSE Head(list) + SumSeq(Tail(list))

\* the concatenation of a sequence of sequences
RECURSIVE Flatten(_)
Flatten(lists) == IF lists = <<>> THEN <<>> ELSE Head(lists) \o Flatten(Tail(lists))

\* allSimulatedOrders.filter(order => order.items.length > 0)
activeOrdersOf(os) == SelectSeq(os, LAMBDA o : o.items # <<>>)

\* the { product, order } pairs of the active orders, in iteration order
orderItems(active) ==
    Flatten([k \in 1..Len(active) |->
                [i \in 1..Len(active[k].items) |->
                    [product |-> active[k].items[i], order |-> active[k]]]])

\* the pairs of one warehouse, in iteration order
pairsOf(pairs, warehouseId) ==
    SelectSeq(pairs, LAMBDA oi : oi.product.warehouseId = warehouseId)

\* the keys of a record built by `if (!rec[k]) rec[k] = []; rec[k].push(...)`:
\* the warehouses of the pairs, in the order of first appearance
warehouseKeys(pairs) == SetOf([i \in 1..Len(pairs) |-> pairs[i].product.warehouseId])

\* the shipment record of one order from one warehouse, given the path found
shipmentOf(warehouseId, path, own) ==
    [warehouseId |-> warehouseId,
     path |-> path,
     items |-> [i \in 1..Len(own) |-> own[i].product],
     cost |-> IF path.found THEN routeCost(path.distance) ELSE 0]

\* the shipment of one order from one warehouse, routed by dijkstra
splitShipment(es, order, warehouseId) ==
    shipmentOf(warehouseId, dijkstra(es, warehouseId, order.address),
               pairsOf(orderItems(<<order>>), warehouseId))

\* the record of one order, given its shipments
shipmentsOf(order, shipments) ==
    [orderId |-> order.id, address |-> order.address, shipments |-> shipments,
     totalCost |-> SumSeq([i \in 1..Len(shipments) |-> shipments[i].cost])]

\* faulty variant of orderShipments: only the first source warehouse of the order ships
orderShipmentsFirstOnly(es, order) ==
    shipmentsOf(order, <<splitShipment(es, order, order.items[1].warehouseId)>>)

\* faulty variant of orderShipments: a shipment per item, not per source warehouse
orderShipmentsPerItem(es, order) ==
    shipmentsOf(order, [i \in 1..Len(order.items) |->
                           splitShipment(es, order, order.items[i].warehouseId)])

\* the shipments of one order: one per source warehouse
orderShipments(es, order) ==
    LET keys == warehouseKeys(orderItems(<<order>>))
    IN shipmentsOf(order, [i \in 1..Len(keys) |-> splitShipment(es, order, keys[i])])

\* Strategy 1: one shipment per (order, source warehouse)
strategy1(es, active) == [k \in 1..Len(active) |-> orderShipments(es, active[k])]

\* faulty variant of deliveryAddresses: the time windows of the orders are dropped
deliveryAddressesAnyTime(active) ==
    [k \in 1..Len(active) |-> [address |-> active[k].address, timeWindow |-> "any"]]

\* allDeliveryAddressesForTsp
deliveryAddresses(active) ==
    [k \in 1..Len(active) |->
        [address |-> active[k].address, timeWindow |-> active[k].timeWindow]]

\* consolidatedTspResult, given the route
consolidatedOf(route) == [route |-> route, cost |-> routeCost(route.distance)]

\* Strategy 2: one tour from 'warehouse-a' over all warehouses and all addresses
strategy2(es, active) ==
    consolidatedOf(solveTsp(es, "warehouse-a", warehouseKeys(orderItems(active)),
                            deliveryAddresses(active)))

\* warehouseManifest: per warehouse, the (product, order) lines to load there
warehouseManifest(active) ==
    LET pairs == orderItems(active)
        keys == warehouseKeys(pairs)
    IN [w \in 1..Len(keys) |->
           LET own == pairsOf(pairs, keys[w])
           IN [warehouseId |-> keys[w],
               lines |-> [i \in 1..Len(own) |->
                             [productName |-> own[i].product.name,
                              orderId |-> own[i].order.id]]]]

\* itemsForTrucks.splice(0, TRUCK_CAPACITY), numTrucks times: the items of truck i
truckItemsOf(ordersAndItems, i) ==
    SubSeq(ordersAndItems,
           (i - 1) * TRUCK_CAPACITY + 1,
           IF i * TRUCK_CAPACITY < Len(ordersAndItems) THEN i * TRUCK_CAPACITY
           ELSE Len(ordersAndItems))

\* Math.floor in place of Math.ceil: the last, partly filled truck is not dispatched
numTrucksFloor(totalItems) == totalItems \div TRUCK_CAPACITY

\* Math.ceil(totalItems / TRUCK_CAPACITY)
numTrucksOf(totalItems) == (totalItems + TRUCK_CAPACITY - 1) \div TRUCK_CAPACITY

\* the destinations of one truck: its distinct addresses in order of first
\* appearance, each with the time window of the first item going there
customerDestinations(truckItems) ==
    LET addresses == SetOf([k \in 1..Len(truckItems) |-> truckItems[k].order.address])
    IN [a \in 1..Len(addresses) |->
           LET first == CHOOSE k \in 1..Len(truckItems) :
                           /\ truckItems[k].order.address = addresses[a]
                           /\ \A j \in 1..(k - 1) :
                                 truckItems[j].order.address # addresses[a]
           IN [address |-> addresses[a],
               timeWindow |-> truckItems[first].order.timeWindow]]

\* routes.push({ truck, route, customers, items, cost })
truckOf(i, truckItems, destinations, route) ==
    [truck |-> i,
     route |-> route,
     customers |-> [a \in 1..Len(destinations) |-> destinations[a].address],
     items |-> [k \in 1..Len(truckItems) |->
                   [productName |-> truckItems[k].product.name,
                    orderId |-> truckItems[k].order.id,
                    customerAddress |-> truckItems[k].order.address]],
     cost |-> routeCost(route.distance)]

\* the tour of one truck load, starting at the warehouse
truckLoad(es, warehouseId, i, truckItems) ==
    truckOf(i, truckItems, customerDestinations(truckItems),
            solveTsp(es, warehouseId, <<>>, customerDestinations(truckItems)))

\* one pass of the truck loop: the route of truck i of a warehouse
truckRoute(es, warehouseId, ordersAndItems, i) ==
    truckLoad(es, warehouseId, i, truckItemsOf(ordersAndItems, i))

\* the batch record of one warehouse, given the routes of its trucks
batchOf(warehouseId, routes) ==
    [warehouseId |-> warehouseId, routes |-> routes,
     totalCost |-> SumSeq([i \in 1..Len(routes) |-> routes[i].cost])]

\* the batch result of one warehouse: a tour per truck, starting at the warehouse
warehouseBatch(es, warehouseId, ordersAndItems) ==
    batchOf(warehouseId, [i \in 1..numTrucksOf(Len(ordersAndItems)) |->
                             truckRoute(es, warehouseId, ordersAndItems, i)])

\* Strategy 3: per warehouse, the pending items split over trucks of TRUCK_CAPACITY
strategy3(es, active) ==
    LET pairs == orderItems(active)
        keys == warehouseKeys(pairs)
    IN [w \in 1..Len(keys) |-> warehouseBatch(es, keys[w], pairsOf(pairs, keys[w]))]

\* faulty variant of nearerOf: any warehouse with a path replaces the one kept so far
nearerOfLast(best, wh, path) ==
    IF path.found THEN [nearest |-> wh, minDistance |-> path.distance] ELSE best

\* if (path && path.distance < minDistance) { minDistance = ...; nearest = wh }
nearerOf(best, wh, path) ==
    IF path.found /\ path.distance < best.minDistance
    THEN [nearest |-> wh, minDistance |-> path.distance]
    ELSE best

\* userWarehouses.forEach over the warehouses of the main user's items
RECURSIVE nearestWarehouse(_, _, _, _, _)
nearestWarehouse(es, whs, address, best, i) ==
    IF i > Len(whs) THEN best
    ELSE nearestWarehouse(es, whs, address,
                          nearerOf(best, whs[i], dijkstra(es, whs[i], address)), i + 1)

\* nearestWarehouseForMaxFlow ? edmondsKarp(...) : null
maxFlowFrom(es, nearest, address) ==
    IF nearest # ""
    THEN [present |-> TRUE, value |-> edmondsKarp(es, nearest, address)]
    ELSE [present |-> FALSE]

\* the standalone max-flow analysis for the main user's order
maxFlowToFirstCustomer(es, mainUserOrder) ==
    maxFlowFrom(es,
        nearestWarehouse(es, warehouseKeys(orderItems(<<mainUserOrder>>)),
            mainUserOrder.address, [nearest |-> "", minDistance |-> Infinity], 1).nearest,
        mainUserOrder.address)

\* the object handed to setCombinedResult, given the results of the strategies
resultOf(active, s1, s2, s3, maxFlow) ==
    [present |-> TRUE,
     allOrderShipments |-> s1,
     totalCostStrategy1 |-> SumSeq([k \in 1..Len(s1) |-> s1[k].totalCost]),
     consolidatedTspResult |-> s2,
     requiredWarehousesForTsp |-> warehouseKeys(orderItems(active)),
     deliveryAddressesForTsp |-> deliveryAddresses(active),
     warehouseManifest |-> warehouseManifest(active),
     warehouseBatchResults |-> s3,
     totalCostStrategy3 |-> SumSeq([w \in 1..Len(s3) |-> s3[w].totalCost]),
     maxFlowToFirstCustomer |-> maxFlow]

\* the strategies computed on the active orders, and the max-flow analysis
composeResult(es, os, active) ==
    resultOf(active, strategy1(es, active), strategy2(es, active), strategy3(es, active),
             maxFlowToFirstCustomer(es, os[1]))

\* the body of runCombinedOptimization past the early return
combinedResultOf(es, os) == composeResult(es, os, activeOrdersOf(os))

\* runCombinedOptimization()
runCombinedOptimization(es, os) ==
    IF \A i \in 1..Len(os) : os[i].items = <<>>
    THEN NullResult
    ELSE combinedResultOf(es, os)

-----------------------------------------------------------------------------
(* State machine of the shortest-path calls *)

Idle == [name |-> "none"]

\* no run is split into its computations
NoRun == [pc |-> "idle"]

\* the AI flows of the page
Flows == {"forecastDemand", "predictDeliveryTimes", "proposeOptimizedRoute"}

\* an AI output that was never set, or was set to null
NoOutput == [present |-> FALSE]

\* an AI output as its handler stores it
Output(value) == [present |-> TRUE, value |-> value]

\* no handler awaits this flow
NoRequest == [status |-> "idle", currentEdges |-> <<>>]

\* no request is in flight to any AI flow
NoRequests == [f \in Flows |-> NoRequest]

\* the page state next to the orders, the edges and the result, as useState leaves it
InitRest ==
    /\ isTrafficSimulated = FALSE
    /\ effectPending = FALSE
    /\ edits = 0
    /\ run = NoRun
    /\ isForecasting = FALSE
    /\ isPredicting = FALSE
    /\ isOptimizing = FALSE
    /\ stockRebalance = NoOutput
    /\ deliveryPredictions = NoOutput
    /\ aiOptimizedRoute = NoOutput
    /\ requests = NoRequests

EkIdle == [pc |-> "idle"]

\* the graphs of the shortest-path family: weights vary, capacities do not matter
PathGraphs ==
    LET base == UNION {EdgeLists(S, 0..MaxWeight, {1}) :
                          S \in {T \in SUBSET (1..Len(Pairs)) : Cardinality(T) <= MaxEdges}}
    IN base \cup {Reversed(es) : es \in base}

InitPath ==
    /\ edges \in PathGraphs
    /\ call = Idle
    /\ result = Idle
    /\ ek = EkIdle
    /\ orders = <<>>
    /\ combinedResult = NullResult
    /\ activeMap = Null
    /\ InitRest

\* a caller invokes dijkstra(allNodes, edges, startId, endId)
CallDijkstra ==
    /\ call = Idle
    /\ \E s \in Ids, e \in Ids :
          /\ call' = [name |-> "dijkstra", startId |-> s, endId |-> e]
          /\ result' = dijkstra(edges, s, e)
    /\ UNCHANGED <<edges, ek, orders, combinedResult, activeMap, pageRest>>

NextPath == CallDijkstra

SpecPath == InitPath /\ [][NextPath]_vars

-----------------------------------------------------------------------------
(* State machine of an edmondsKarp run *)

\* the graphs of the max-flow family: capacities vary, weights do not matter
FlowGraphs ==
    LET base == UNION {EdgeLists(S, {1}, 1..MaxCap) :
                          S \in {T \in SUBSET (1..Len(Pairs)) : Cardinality(T) <= MaxFlowEdges}}
    IN base \cup {Reversed(es) : es \in base}

InitFlow ==
    /\ edges \in FlowGraphs
    /\ call = Idle
    /\ result = Idle
    /\ ek = EkIdle
    /\ orders = <<>>
    /\ combinedResult = NullResult
    /\ activeMap = Null
    /\ InitRest

\* a caller invokes edmondsKarp(allNodes, edges, sourceId, sinkId): the code up to the loop
EkStart ==
    /\ call = Idle
    /\ \E s \in NodeSet, t \in NodeSet :
          /\ call' = [name |-> "edmondsKarp", sourceId |-> s, sinkId |-> t]
          /\ ek' = ekInit(edges, s, t)
    /\ UNCHANGED <<edges, result, orders, combinedResult, activeMap, pageRest>>

\* bfs found an augmenting path: one pass of the loop body
EkAugment ==
    /\ ek.pc = "loop"
    /\ ekStep(edges, ek).pc = "loop"
    /\ ek' = ekStep(edges, ek)
    /\ UNCHANGED <<edges, call, result, orders, combinedResult, activeMap, pageRest>>

\* bfs found none: return maxFlow
EkReturn ==
    /\ ek.pc = "loop"
    /\ ekStep(edges, ek).pc = "done"
    /\ ek' = ekStep(edges, ek)
    /\ result' = ek.maxFlow
    /\ UNCHANGED <<edges, call, orders, combinedResult, activeMap, pageRest>>

NextFlow == EkStart \/ EkAugment \/ EkReturn

SpecFlow == InitFlow /\ [][NextFlow]_vars

\* a pass of the loop would change the locals of the run: ENABLED <<EkPass>>_ek
CanPass == ek.pc = "loop" /\ ekStep(edges, ek) # ek

\* the next evaluation of the loop condition, with the pass of the body it allows
EkPass == EkAugment \/ EkReturn

\* edmondsKarp is synchronous code: once called, its loop runs until it returns.
\* The fairness condition is WF_ek(EkPass), written out with CanPass for ENABLED.
SpecFlowLive == SpecFlow /\ ([]<>(~CanPass) \/ []<><<EkPass>>_ek)

-----------------------------------------------------------------------------
(* State machine of the tour calls *)

TimeWindows == {"any", "morning", "afternoon"}

\* the sequences over S of length at most n
SeqsUpTo(S, n) == UNION {[1..k -> S] : k \in 0..n}

\* the graphs of the tour family: weights vary, capacities do not matter
TourGraphs ==
    UNION {EdgeLists(S, 1..MaxTourWeight, {1}) :
              S \in {T \in SUBSET (1..Len(Pairs)) : Cardinality(T) <= MaxTourEdges}}

\* the worked example of the tour: the line D - W (10), W - C (5), with
\* 'warehouse-a' as D, 'warehouse-b' as W and 'loc1' as C
LineGraph ==
    <<Edge(<<"warehouse-a", "warehouse-b">>, 10, 1), Edge(<<"warehouse-b", "loc1">>, 5, 1)>>

InitTour ==
    /\ edges \in TourGraphs \cup {LineGraph}
    /\ call = Idle
    /\ result = Idle
    /\ ek = EkIdle
    /\ orders = <<>>
    /\ combinedResult = NullResult
    /\ activeMap = Null
    /\ InitRest

\* a caller invokes solveTsp(allNodes, edges, startDepot, warehousesToVisit, customersToVisit)
CallSolveTsp ==
    /\ call = Idle
    /\ \E d \in WarehouseNodes \cup {Unknown},
          ws \in SeqsUpTo(WarehouseNodes \cup {Unknown}, MaxWarehouses),
          cs \in SeqsUpTo([address : LocationNodes \cup {Unknown}, timeWindow : TimeWindows],
                          MaxCustomers) :
          /\ call' = [name |-> "solveTsp", startDepot |-> d,
                      warehousesToVisit |-> ws, customersToVisit |-> cs]
          /\ result' = solveTsp(edges, d, ws, cs)
    /\ UNCHANGED <<edges, ek, orders, combinedResult, activeMap, pageRest>>

NextTour == CallSolveTsp \/ CallDijkstra

SpecTour == InitTour /\ [][NextTour]_vars

-----------------------------------------------------------------------------
(* State machine of the checkout page: orders in, comparison out *)

\* the catalogue: one product per source warehouse
Products ==
    <<[name |-> "Laptop", warehouseId |-> "warehouse-a"],
      [name |-> "Desk", warehouseId |-> "warehouse-b"]>>

\* n copies of product p
Run(p, n) == [i \in 1..n |-> p]

\* the quantities of one product in one order: none, half a truck, just over half a
\* truck, and more than a truck
Quantities == {0, TRUCK_CAPACITY \div 2, TRUCK_CAPACITY \div 2 + 1, MaxQty}

\* the item lists of one order: a run of each product of the catalogue
ItemLists ==
    {Run(Products[1], nm[1]) \o Run(Products[2], nm[2]) : nm \in Quantities \X Quantities}

\* the id of the k-th order: 'you', then `user-${otherOrders.length + 2}`
orderId(k) == IF k = 1 THEN "you" ELSE IF k = 2 THEN "user-2" ELSE "user-3"

\* the k-th order, as the order form leaves it
SimulatedOrder(k, address, timeWindow, items) ==
    [id |-> orderId(k), address |-> address, timeWindow |-> timeWindow, items |-> items]

\* the road network of the page: both warehouses on a road through both customers
BatchGraphs ==
    {<<Edge(<<"warehouse-a", "loc1">>, 1, 1), Edge(<<"loc1", "loc2">>, 2, 1),
       Edge(<<"warehouse-b", "loc2">>, 1, 1)>>}

InitBatch ==
    /\ edges \in BatchGraphs
    /\ call = Idle
    /\ result = Idle
    /\ ek = EkIdle
    /\ \E n \in 1..(1 + MaxOtherOrders) :
          \E a \in [1..n -> LocationNodes], t \in [1..n -> TimeWindows],
             l \in [1..n -> ItemLists] :
             orders = [k \in 1..n |-> SimulatedOrder(k, a[k], t[k], l[k])]
    /\ combinedResult = NullResult
    /\ activeMap = Null
    /\ InitRest

\* faulty variant of RunCombinedOptimization: the trucks are loaded by splicing the
\* items out of the orders themselves
RunCombinedOptimizationInPlace ==
    /\ combinedResult' = runCombinedOptimization(edges, orders)
    /\ activeMap' = IF combinedResult'.present THEN "strategy-2" ELSE activeMap
    /\ orders' = [k \in 1..Len(orders) |-> [orders[k] EXCEPT !.items = <<>>]]
    /\ UNCHANGED <<edges, call, result, ek, pageRest>>

\* the user presses "run": runCombinedOptimization()
RunCombinedOptimization ==
    /\ combinedResult' = runCombinedOptimization(edges, orders)
    /\ activeMap' = IF combinedResult'.present THEN "strategy-2" ELSE activeMap
    /\ UNCHANGED <<edges, call, result, ek, orders, pageRest>>

NextBatch == RunCombinedOptimization

SpecBatch == InitBatch /\ [][NextBatch]_vars

-----------------------------------------------------------------------------
(* State machine of the checkout page on small orders and many road networks *)

\* the item lists of one order of the page family
PageItemLists ==
    {Run(Products[1], nm[1]) \o Run(Products[2], nm[2]) :
        nm \in {x \in (0..MaxPageItems) \X (0..MaxPageItems) : x[1] + x[2] <= MaxPageItems}}

\* the time windows of the page family: the default and a constrained one
PageWindows == {"any", "morning"}

\* the road networks of the page family, connected or not: the shorter a road,
\* the more it carries
PageGraphs ==
    LET base == UNION {EdgeLists(S, 1..MaxPageWeight, {1}) :
                          S \in {T \in SUBSET (1..Len(Pairs)) : Cardinality(T) <= MaxPageEdges}}
    IN {[i \in 1..Len(es) |-> [es[i] EXCEPT !.capacity = MaxPageWeight + 1 - es[i].weight]] :
           es \in base}

InitPage ==
    /\ edges \in PageGraphs
    /\ call = Idle
    /\ result = Idle
    /\ ek = EkIdle
    /\ \E n \in 1..(1 + MaxOtherOrders) :
          \E a \in [1..n -> LocationNodes], t \in [1..n -> PageWindows],
             l \in [1..n -> PageItemLists] :
             orders = [k \in 1..n |-> SimulatedOrder(k, a[k], t[k], l[k])]
    /\ combinedResult = NullResult
    /\ activeMap = Null
    /\ InitRest

NextPage == RunCombinedOptimization

SpecPage == InitPage /\ [][NextPage]_vars

-----------------------------------------------------------------------------
(* State machine of a session on the checkout page: the order form, the run
   button, the traffic buttons and the reset button.  React commits the render
   that follows a handler before it runs the effect on [currentEdges], so the
   effect is a step of its own; no handler runs before a pending effect. *)

\* the road network the page is loaded with
initialEdges ==
    <<Edge(<<"warehouse-a", "loc1">>, 1, 1), Edge(<<"loc1", "loc2">>, 2, 1),
      Edge(<<"warehouse-b", "loc2">>, 1, 1)>>

\* the factors simulated traffic multiplies a weight by (1.5 + Math.random() * 2)
TrafficFactors == 2..MaxTrafficFactor

\* faulty variant of trafficOn: the weight is divided by the factor
trafficOnSpedUp(slowed, f) ==
    [i \in 1..Len(initialEdges) |->
        IF i \in slowed THEN [initialEdges[i] EXCEPT !.weight = @ \div f[i]]
        ELSE initialEdges[i]]

\* initialEdges.map(edge => Math.random() < 0.3 ? {...edge, weight: edge.weight * f} : edge)
trafficOn(slowed, f) ==
    [i \in 1..Len(initialEdges) |->
        IF i \in slowed THEN [initialEdges[i] EXCEPT !.weight = @ * f[i]]
        ELSE initialEdges[i]]

\* the ids of the orders the form shows
orderIds(os) == {os[k].id : k \in 1..Len(os)}

\* addOtherUser(): a new empty order at 'loc15'
addOtherUser(os) == Append(os, SimulatedOrder(Len(os) + 1, "loc2", "any", <<>>))

\* removeOtherUser(userId): otherOrders.filter(order => order.id !== userId)
removeOtherUser(os, userId) == <<os[1]>> \o SelectSeq(Tail(os), LAMBDA o : o.id # userId)

\* addProductToOrder(userId, productId)
addProductToOrder(os, userId, product) ==
    [k \in 1..Len(os) |->
        IF os[k].id = userId THEN [os[k] EXCEPT !.items = Append(@, product)] ELSE os[k]]

\* newItems.splice(itemIndex, 1)
SpliceOut(items, itemIndex) ==
    [i \in 1..(Len(items) - 1) |-> IF i < itemIndex THEN items[i] ELSE items[i + 1]]

\* removeProductFromOrder(userId, itemIndex)
removeProductFromOrder(os, userId, itemIndex) ==
    [k \in 1..Len(os) |->
        IF os[k].id = userId THEN [os[k] EXCEPT !.items = SpliceOut(@, itemIndex)] ELSE os[k]]

\* setOrderAddress(userId, address)
setOrderAddress(os, userId, address) ==
    [k \in 1..Len(os) |->
        IF os[k].id = userId THEN [os[k] EXCEPT !.address = address] ELSE os[k]]

\* setTimeWindow(userId, timeWindow)
setTimeWindow(os, userId, timeWindow) ==
    [k \in 1..Len(os) |->
        IF os[k].id = userId THEN [os[k] EXCEPT !.timeWindow = timeWindow] ELSE os[k]]

\* the page as it is loaded: the main user's order holds the cart, no other order
InitSession ==
    /\ edges = initialEdges
    /\ call = Idle
    /\ result = Idle
    /\ ek = EkIdle
    /\ \E l \in PageItemLists : orders = <<SimulatedOrder(1, "loc1", "any", l)>>
    /\ combinedResult = NullResult
    /\ activeMap = Null
    /\ InitRest

\* an edit of the order form replaces the order list and nothing else
Edit(os) ==
    /\ ~effectPending
    /\ edits < MaxEdits
    /\ edits' = edits + 1
    /\ orders' = os
    /\ UNCHANGED <<edges, call, result, ek, combinedResult, activeMap,
                   isTrafficSimulated, effectPending, run, aiVars>>

AddOtherUser ==
    /\ Len(orders) < 1 + MaxOtherOrders
    /\ Edit(addOtherUser(orders))

RemoveOtherUser ==
    \E k \in 2..Len(orders) : Edit(removeOtherUser(orders, orders[k].id))

AddProductToOrder ==
    \E userId \in orderIds(orders), i \in 1..Len(Products) :
        /\ \A k \in 1..Len(orders) : orders[k].id = userId => Len(orders[k].items) < MaxPageItems
        /\ Edit(addProductToOrder(orders, userId, Products[i]))

RemoveProductFromOrder ==
    \E k \in 1..Len(orders) : \E itemIndex \in 1..Len(orders[k].items) :
        Edit(removeProductFromOrder(orders, orders[k].id, itemIndex))

SetOrderAddress ==
    \E userId \in orderIds(orders), address \in LocationNodes :
        Edit(setOrderAddress(orders, userId, address))

SetTimeWindow ==
    \E userId \in orderIds(orders), timeWindow \in PageWindows :
        Edit(setTimeWindow(orders, userId, timeWindow))

\* the user presses "run" on the committed page; the button is disabled while
\* every order is empty
PressRun ==
    /\ ~effectPending
    /\ \E i \in 1..Len(orders) : orders[i].items # <<>>
    /\ RunCombinedOptimization

\* simulateTraffic(): enabled while no traffic is simulated; the new edge list is a
\* new array, so the effect on [currentEdges] is due
SimulateTraffic ==
    /\ ~effectPending
    /\ ~isTrafficSimulated
    /\ \E slowed \in {S \in SUBSET (1..Len(initialEdges)) : Cardinality(S) <= MaxSlowed} :
          \E f \in [slowed -> TrafficFactors] : edges' = trafficOn(slowed, f)
    /\ isTrafficSimulated' = TRUE
    /\ effectPending' = TRUE
    /\ UNCHANGED <<call, result, ek, orders, combinedResult, activeMap, edits, run, aiVars>>

\* resetTraffic(): enabled while traffic is simulated
ResetTraffic ==
    /\ ~effectPending
    /\ isTrafficSimulated
    /\ edges' = initialEdges
    /\ isTrafficSimulated' = FALSE
    /\ effectPending' = TRUE
    /\ UNCHANGED <<call, result, ek, orders, combinedResult, activeMap, edits, run, aiVars>>

\* faulty variant of EffectRerun: the effect runs the optimization whether or not a
\* result is stored
EffectRerunUnguarded ==
    /\ effectPending
    /\ effectPending' = FALSE
    /\ combinedResult' = runCombinedOptimization(edges, orders)
    /\ activeMap' = IF combinedResult'.present THEN "strategy-2" ELSE activeMap
    /\ UNCHANGED <<edges, call, result, ek, orders, isTrafficSimulated, edits, run, aiVars>>

\* faulty variant of EffectRerun: the re-run refreshes the routes and costs of the
\* strategies and keeps the other fields of the stored result
EffectRerunRoutesOnly ==
    /\ effectPending
    /\ effectPending' = FALSE
    /\ IF combinedResult.present /\ runCombinedOptimization(edges, orders).present
       THEN /\ combinedResult' =
                  [runCombinedOptimization(edges, orders) EXCEPT
                      !.maxFlowToFirstCustomer = combinedResult.maxFlowToFirstCustomer,
                      !.totalCostStrategy1 = combinedResult.totalCostStrategy1]
            /\ activeMap' = "strategy-2"
       ELSE UNCHANGED <<combinedResult, activeMap>>
    /\ UNCHANGED <<edges, call, result, ek, orders, isTrafficSimulated, edits, run, aiVars>>

\* useEffect(() => { if (combinedResult) runCombinedOptimization(); }, [currentEdges])
EffectRerun ==
    /\ effectPending
    /\ effectPending' = FALSE
    /\ IF combinedResult.present
       THEN /\ combinedResult' = runCombinedOptimization(edges, orders)
            /\ activeMap' = IF combinedResult'.present THEN "strategy-2" ELSE activeMap
       ELSE UNCHANGED <<combinedResult, activeMap>>
    /\ UNCHANGED <<edges, call, result, ek, orders, isTrafficSimulated, edits, run, aiVars>>

\* resetSimulation(): the cart is cleared by the cart context, which either hands the
\* page a new empty cart (the main order's items are emptied) or keeps the one it
\* had (the items stay); the other orders, the result, the traffic and the AI
\* outputs are cleared
ResetSimulation ==
    /\ ~effectPending
    /\ \E items \in {<<>>, orders[1].items} : orders' = <<[orders[1] EXCEPT !.items = items]>>
    /\ combinedResult' = NullResult
    /\ edges' = initialEdges
    /\ isTrafficSimulated' = FALSE
    /\ effectPending' = isTrafficSimulated
    /\ stockRebalance' = NoOutput
    /\ deliveryPredictions' = NoOutput
    /\ aiOptimizedRoute' = NoOutput
    /\ UNCHANGED <<call, result, ek, activeMap, edits, run,
                   isForecasting, isPredicting, isOptimizing, requests>>

NextSession ==
    \/ AddOtherUser
    \/ RemoveOtherUser
    \/ AddProductToOrder
    \/ RemoveProductFromOrder
    \/ SetOrderAddress
    \/ SetTimeWindow
    \/ PressRun
    \/ SimulateTraffic
    \/ ResetTraffic
    \/ EffectRerun
    \/ ResetSimulation

SpecSession == InitSession /\ [][NextSession]_vars

\* React runs the effect of a committed render before it handles another event.
\* The fairness condition is WF_vars(EffectRerun), written out: the effect is
\* enabled, and changes the state, exactly when it is pending.
SpecSessionLive == SpecSession /\ ([]<>(~effectPending) \/ []<><<EffectRerun>>_vars)

-----------------------------------------------------------------------------
(* State machine of one run of runCombinedOptimization split into its blocks:
   the three strategies and the max-flow analysis advance in any order, each on
   the locals its block of the code declares, and setCombinedResult composes
   them.  The code runs the blocks one after the other; this machine asks what
   any other order would store. *)

\* the road networks of the runs: the built-in one, with and without traffic
RunGraphs ==
    {trafficOn(slowed, f) :
        slowed \in {S \in SUBSET (1..Len(initialEdges)) : Cardinality(S) <= MaxSlowed},
        f \in [1..Len(initialEdges) -> TrafficFactors]}

InitRun ==
    /\ edges \in RunGraphs
    /\ call = Idle
    /\ result = Idle
    /\ ek = EkIdle
    /\ \E n \in 1..(1 + MaxOtherOrders) :
          \E a \in [1..n -> LocationNodes], t \in [1..n -> PageWindows],
             l \in [1..n -> PageItemLists] :
             orders = [k \in 1..n |-> SimulatedOrder(k, a[k], t[k], l[k])]
    /\ combinedResult = NullResult
    /\ activeMap = Null
    /\ InitRest

\* the blocks of the run, in the order of the code
Blocks == <<"strategy1", "strategy2", "strategy3", "maxFlow">>

\* the locals of a run that has passed the early return and entered no block
runLocals(active) ==
    [pc |-> "running",
     activeOrders |-> active,
     allOrderShipments |-> <<>>,
     totalCostStrategy1 |-> 0,
     strategy2 |-> FALSE,
     consolidatedTspResult |-> Null,
     requiredWarehousesForTsp |-> <<>>,
     deliveryAddressesForTsp |-> <<>>,
     warehouseManifest |-> <<>>,
     warehouseBatchResults |-> <<>>,
     totalCostStrategy3 |-> 0,
     maxFlow |-> FALSE,
     maxFlowToFirstCustomer |-> Null,
     outOfOrder |-> FALSE]

\* whether block b of the run r has nothing left to do
blockDone(r, b) ==
    CASE b = "strategy1" -> Len(r.allOrderShipments) = Len(r.activeOrders)
      [] b = "strategy2" -> r.strategy2
      [] b = "strategy3" ->
            Len(r.warehouseBatchResults) = Len(warehouseKeys(orderItems(r.activeOrders)))
      [] b = "maxFlow" -> r.maxFlow

\* whether a step of block number b comes before a block of the code is finished
\* that precedes it
overtakes(r, b) == \E c \in 1..(b - 1) : ~blockDone(r, Blocks[c])

\* the early return: every order is empty
RunEmpty ==
    /\ run.pc = "idle"
    /\ \A i \in 1..Len(orders) : orders[i].items = <<>>
    /\ combinedResult' = NullResult
    /\ run' = [pc |-> "done", outOfOrder |-> FALSE]
    /\ UNCHANGED <<edges, call, result, ek, orders, activeMap,
                   isTrafficSimulated, effectPending, edits, aiVars>>

\* const activeOrders = allSimulatedOrders.filter(order => order.items.length > 0)
RunStart ==
    /\ run.pc = "idle"
    /\ \E i \in 1..Len(orders) : orders[i].items # <<>>
    /\ run' = runLocals(activeOrdersOf(orders))
    /\ UNCHANGED <<edges, call, result, ek, orders, combinedResult, activeMap,
                   isTrafficSimulated, effectPending, edits, aiVars>>

\* the locals after one pass of activeOrders.map of Strategy 1
afterDirectShip(r, shipments) ==
    [r EXCEPT !.allOrderShipments = Append(@, shipments),
              !.totalCostStrategy1 = @ + shipments.totalCost,
              !.outOfOrder = @ \/ overtakes(r, 1)]

\* the locals after the block of Strategy 2
afterConsolidated(r, consolidated) ==
    [r EXCEPT !.strategy2 = TRUE,
              !.consolidatedTspResult = consolidated,
              !.requiredWarehousesForTsp = warehouseKeys(orderItems(r.activeOrders)),
              !.deliveryAddressesForTsp = deliveryAddresses(r.activeOrders),
              !.warehouseManifest = warehouseManifest(r.activeOrders),
              !.outOfOrder = @ \/ overtakes(r, 2)]

\* faulty variant of afterBatch: the trucks are charged to the total of Strategy 1
afterBatchSharedTotal(r, batch) ==
    [r EXCEPT !.warehouseBatchResults = Append(@, batch),
              !.totalCostStrategy1 = @ + batch.totalCost,
              !.outOfOrder = @ \/ overtakes(r, 3)]

\* the locals after one pass of Object.entries(itemsByWarehouseForBatching).map
afterBatch(r, batch) ==
    [r EXCEPT !.warehouseBatchResults = Append(@, batch),
              !.totalCostStrategy3 = @ + batch.totalCost,
              !.outOfOrder = @ \/ overtakes(r, 3)]

\* the locals after the max-flow analysis
afterMaxFlow(r, maxFlow) ==
    [r EXCEPT !.maxFlow = TRUE,
              !.maxFlowToFirstCustomer = maxFlow,
              !.outOfOrder = @ \/ overtakes(r, 4)]

\* the frame of a step of the run: it writes the locals of the run only
RunFrame ==
    UNCHANGED <<edges, call, result, ek, orders, combinedResult, activeMap,
                isTrafficSimulated, effectPending, edits, aiVars>>

\* Strategy 1 handles its next order
StepDirectShip ==
    /\ run.pc = "running"
    /\ ~blockDone(run, "strategy1")
    /\ run' = afterDirectShip(run,
                 orderShipments(edges, run.activeOrders[Len(run.allOrderShipments) + 1]))
    /\ RunFrame

\* Strategy 2 builds its stop lists and its tour
StepConsolidated ==
    /\ run.pc = "running"
    /\ ~blockDone(run, "strategy2")
    /\ run' = afterConsolidated(run, strategy2(edges, run.activeOrders))
    /\ RunFrame

\* the batch of the w-th warehouse of the active orders
nextBatch(es, active, w) ==
    warehouseBatch(es, warehouseKeys(orderItems(active))[w],
                   pairsOf(orderItems(active), warehouseKeys(orderItems(active))[w]))

\* Strategy 3 handles its next warehouse
StepBatch ==
    /\ run.pc = "running"
    /\ ~blockDone(run, "strategy3")
    /\ run' = afterBatch(run,
                 nextBatch(edges, run.activeOrders, Len(run.warehouseBatchResults) + 1))
    /\ RunFrame

\* the max-flow analysis of the main user's order
StepMaxFlow ==
    /\ run.pc = "running"
    /\ ~blockDone(run, "maxFlow")
    /\ run' = afterMaxFlow(run, maxFlowToFirstCustomer(edges, orders[1]))
    /\ RunFrame

\* the object handed to setCombinedResult, built from the locals of the run
composed(r) ==
    [present |-> TRUE,
     allOrderShipments |-> r.allOrderShipments,
     totalCostStrategy1 |-> r.totalCostStrategy1,
     consolidatedTspResult |-> r.consolidatedTspResult,
     requiredWarehousesForTsp |-> r.requiredWarehousesForTsp,
     deliveryAddressesForTsp |-> r.deliveryAddressesForTsp,
     warehouseManifest |-> r.warehouseManifest,
     warehouseBatchResults |-> r.warehouseBatchResults,
     totalCostStrategy3 |-> r.totalCostStrategy3,
     maxFlowToFirstCustomer |-> r.maxFlowToFirstCustomer]

\* setCombinedResult({...}) and the default map view, once every block is finished
RunCommit ==
    /\ run.pc = "running"
    /\ \A b \in 1..Len(Blocks) : blockDone(run, Blocks[b])
    /\ combinedResult' = composed(run)
    /\ activeMap' = "strategy-2"
    /\ run' = [pc |-> "done", outOfOrder |-> run.outOfOrder]
    /\ UNCHANGED <<edges, call, result, ek, orders,
                   isTrafficSimulated, effectPending, edits, aiVars>>

NextRun ==
    \/ RunEmpty
    \/ RunStart
    \/ StepDirectShip
    \/ StepConsolidated
    \/ StepBatch
    \/ StepMaxFlow
    \/ RunCommit

SpecRun == InitRun /\ [][NextRun]_vars

-----------------------------------------------------------------------------
(* State machine of the AI handlers of the checkout page.  A handler sets its busy
   flag, clears its output and awaits its flow; the flow resolves or rejects; the
   continuation of the handler (then or catch, and finally) runs as a microtask,
   before any other event. *)

\* the answers of forecastDemand the model draws from
StockRebalances == {<<"rebalance">>}

\* the answers of predictDeliveryTimes the model draws from
DeliveryPredictions == {<<"prediction">>}

\* the truckRoutes of the answers of proposeOptimizedRoute the model draws from
TruckPlans ==
    {<<>>,
     <<[truckId |-> "truck-1", startWarehouseId |-> "warehouse-b",
        pickupWarehouseIds |-> <<"warehouse-a">>, deliveryCustomerIds |-> <<"loc2">>]>>}

\* one entry of processedTrucks, given the tour found for the plan
processedTruck(truckPlan, route) ==
    [id |-> truckPlan.truckId, route |-> route, cost |-> routeCost(route.distance)]

\* the tour of one truck plan: every delivery at any time
planRoute(es, truckPlan) ==
    solveTsp(es, truckPlan.startWarehouseId, truckPlan.pickupWarehouseIds,
             [i \in 1..Len(truckPlan.deliveryCustomerIds) |->
                 [address |-> truckPlan.deliveryCustomerIds[i], timeWindow |-> "any"]])

\* the object handed to setAiOptimizedRoute, given the processed trucks
aiRouteOf(trucks) ==
    [trucks |-> trucks, totalCost |-> SumSeq([i \in 1..Len(trucks) |-> trucks[i].cost])]

\* the post-processing of the proposal on the edges the handler closed over
processedRoute(es, truckRoutes) ==
    aiRouteOf([i \in 1..Len(truckRoutes) |->
                  processedTruck(truckRoutes[i], planRoute(es, truckRoutes[i]))])

\* a continuation of a handler is due: it runs before any other event
ContinuationDue == \E f \in Flows : requests[f].status \in {"rejected", "resolved"}

\* the page is committed and no microtask is due: events are handled
Settled == ~effectPending /\ ~ContinuationDue

\* the handler awaits flow f, having closed over the edges of its render
awaiting(f) == [requests EXCEPT ![f] = [status |-> "pending", currentEdges |-> edges]]

\* the cart the AI sessions start from: one item of the catalogue
AiItemLists == {<<Products[1]>>}

InitAi ==
    /\ edges = initialEdges
    /\ call = Idle
    /\ result = Idle
    /\ ek = EkIdle
    /\ \E l \in AiItemLists : orders = <<SimulatedOrder(1, "loc1", "any", l)>>
    /\ combinedResult = NullResult
    /\ activeMap = Null
    /\ InitRest

\* handleForecastDemand up to the await; the button is disabled while forecasting
\* and while every order is empty
HandleForecastDemand ==
    /\ Settled
    /\ ~isForecasting
    /\ \E i \in 1..Len(orders) : orders[i].items # <<>>
    /\ isForecasting' = TRUE
    /\ stockRebalance' = NoOutput
    /\ requests' = awaiting("forecastDemand")
    /\ UNCHANGED <<edges, call, result, ek, orders, combinedResult, activeMap, uiVars,
                   isPredicting, isOptimizing, deliveryPredictions, aiOptimizedRoute>>

\* handlePredictDeliveryTimes up to the await; the button is disabled while
\* predicting and while there is no result
HandlePredictDeliveryTimes ==
    /\ Settled
    /\ ~isPredicting
    /\ combinedResult.present
    /\ isPredicting' = TRUE
    /\ deliveryPredictions' = NoOutput
    /\ requests' = awaiting("predictDeliveryTimes")
    /\ UNCHANGED <<edges, call, result, ek, orders, combinedResult, activeMap, uiVars,
                   isForecasting, isOptimizing, stockRebalance, aiOptimizedRoute>>

\* handleGenerateAiRoute up to the await; the button is disabled while optimizing,
\* and the handler returns at once while every order is empty
HandleGenerateAiRoute ==
    /\ Settled
    /\ ~isOptimizing
    /\ \E i \in 1..Len(orders) : orders[i].items # <<>>
    /\ isOptimizing' = TRUE
    /\ aiOptimizedRoute' = NoOutput
    /\ requests' = awaiting("proposeOptimizedRoute")
    /\ UNCHANGED <<edges, call, result, ek, orders, combinedResult, activeMap, uiVars,
                   isForecasting, isPredicting, stockRebalance, deliveryPredictions>>

\* the frame of a step of a flow: the promise settles and nothing of the page changes
FlowFrame ==
    UNCHANGED <<edges, call, result, ek, orders, combinedResult, activeMap, uiVars,
                isForecasting, isPredicting, isOptimizing, stockRebalance,
                deliveryPredictions, aiOptimizedRoute>>

\* a flow rejects: the text-generation collaborator has failed
Rejects ==
    /\ Settled
    /\ \E f \in Flows :
          /\ requests[f].status = "pending"
          /\ requests' = [requests EXCEPT ![f].status = "rejected"]
    /\ FlowFrame

\* a flow resolves
Resolves ==
    /\ Settled
    /\ \E f \in Flows :
          /\ requests[f].status = "pending"
          /\ requests' = [requests EXCEPT ![f].status = "resolved"]
    /\ FlowFrame

\* faulty variant of ForecastDemandSettles: no finally, so a rejection leaves the
\* busy flag set
ForecastDemandSettlesNoFinally ==
    /\ requests["forecastDemand"].status \in {"rejected", "resolved"}
    /\ IF requests["forecastDemand"].status = "resolved"
       THEN /\ \E answer \in StockRebalances : stockRebalance' = Output(answer)
            /\ isForecasting' = FALSE
       ELSE UNCHANGED <<stockRebalance, isForecasting>>
    /\ requests' = [requests EXCEPT !["forecastDemand"] = NoRequest]
    /\ UNCHANGED <<edges, call, result, ek, orders, combinedResult, activeMap, uiVars,
                   isPredicting, isOptimizing, deliveryPredictions, aiOptimizedRoute>>

\* handleForecastDemand past the await: setStockRebalance(result) or the catch,
\* and the finally
ForecastDemandSettles ==
    /\ requests["forecastDemand"].status \in {"rejected", "resolved"}
    /\ IF requests["forecastDemand"].status = "resolved"
       THEN \E answer \in StockRebalances : stockRebalance' = Output(answer)
       ELSE UNCHANGED stockRebalance
    /\ isForecasting' = FALSE
    /\ requests' = [requests EXCEPT !["forecastDemand"] = NoRequest]
    /\ UNCHANGED <<edges, call, result, ek, orders, combinedResult, activeMap, uiVars,
                   isPredicting, isOptimizing, deliveryPredictions, aiOptimizedRoute>>

\* handlePredictDeliveryTimes past the await
PredictDeliveryTimesSettles ==
    /\ requests["predictDeliveryTimes"].status \in {"rejected", "resolved"}
    /\ IF requests["predictDeliveryTimes"].status = "resolved"
       THEN \E answer \in DeliveryPredictions : deliveryPredictions' = Output(answer)
       ELSE UNCHANGED deliveryPredictions
    /\ isPredicting' = FALSE
    /\ requests' = [requests EXCEPT !["predictDeliveryTimes"] = NoRequest]
    /\ UNCHANGED <<edges, call, result, ek, orders, combinedResult, activeMap, uiVars,
                   isForecasting, isOptimizing, stockRebalance, aiOptimizedRoute>>

\* handleGenerateAiRoute past the await: the proposal is post-processed with solveTsp
\* on the edges of the render the handler was started in
GenerateAiRouteSettles ==
    /\ requests["proposeOptimizedRoute"].status \in {"rejected", "resolved"}
    /\ IF requests["proposeOptimizedRoute"].status = "resolved"
       THEN \E truckRoutes \in TruckPlans :
               aiOptimizedRoute' =
                   Output(processedRoute(requests["proposeOptimizedRoute"].currentEdges,
                                         truckRoutes))
       ELSE UNCHANGED aiOptimizedRoute
    /\ isOptimizing' = FALSE
    /\ requests' = [requests EXCEPT !["proposeOptimizedRoute"] = NoRequest]
    /\ UNCHANGED <<edges, call, result, ek, orders, combinedResult, activeMap, uiVars,
                   isForecasting, isPredicting, stockRebalance, deliveryPredictions>>

\* the events of the page next to the AI buttons
PageEvent ==
    /\ ~ContinuationDue
    /\ \/ PressRun
       \/ SimulateTraffic
       \/ ResetTraffic
       \/ EffectRerun
       \/ ResetSimulation

NextAi ==
    \/ PageEvent
    \/ HandleForecastDemand
    \/ HandlePredictDeliveryTimes
    \/ HandleGenerateAiRoute
    \/ Rejects
    \/ Resolves
    \/ ForecastDemandSettles
    \/ PredictDeliveryTimesSettles
    \/ GenerateAiRouteSettles

SpecAi == InitAi /\ [][NextAi]_vars

\* the continuation of a handler is a microtask: once due, it runs
SpecAiLive ==
    /\ SpecAi
    /\ WF_vars(ForecastDemandSettles)
    /\ WF_vars(PredictDeliveryTimesSettles)
    /\ WF_vars(GenerateAiRouteSettles)

-----------------------------------------------------------------------------
(* State machine of the module load of the graph: connections.map builds the
   edge list of the page, one edge per listed connection *)

\* the built-in locations: id, x, y
locations ==
    <<[id |-> "warehouse-a", x |-> 50, y |-> 175],
      [id |-> "warehouse-b", x |-> 280, y |-> 40],
      [id |-> "warehouse-c", x |-> 450, y |-> 250],
      [id |-> "warehouse-d", x |-> 120, y |-> 320],
      [id |-> "warehouse-e", x |-> 480, y |-> 50],
      [id |-> "loc1", x |-> 120, y |-> 50],
      [id |-> "loc2", x |-> 100, y |-> 150],
      [id |-> "loc3", x |-> 130, y |-> 250],
      [id |-> "loc4", x |-> 210, y |-> 320],
      [id |-> "loc5", x |-> 200, y |-> 80],
      [id |-> "loc6", x |-> 180, y |-> 180],
      [id |-> "loc7", x |-> 220, y |-> 280],
      [id |-> "loc8", x |-> 210, y |-> 20],
      [id |-> "loc9", x |-> 280, y |-> 130],
      [id |-> "loc10", x |-> 300, y |-> 220],
      [id |-> "loc11", x |-> 290, y |-> 330],
      [id |-> "loc12", x |-> 350, y |-> 60],
      [id |-> "loc13", x |-> 330, y |-> 175],
      [id |-> "loc14", x |-> 360, y |-> 280],
      [id |-> "loc15", x |-> 450, y |-> 130],
      [id |-> "loc16", x |-> 420, y |-> 180],
      [id |-> "loc17", x |-> 430, y |-> 210],
      [id |-> "loc18", x |-> 460, y |-> 310],
      [id |-> "loc19", x |-> 480, y |-> 175],
      [id |-> "loc20", x |-> 190, y |-> 220]>>

\* the built-in connections, in the order of the list
connections ==
    <<<<"warehouse-a", "loc2">>, <<"warehouse-a", "loc3">>,
      <<"warehouse-b", "loc5">>, <<"warehouse-b", "loc8">>, <<"warehouse-b", "loc9">>,
      <<"warehouse-b", "loc12">>,
      <<"warehouse-c", "loc14">>, <<"warehouse-c", "loc17">>, <<"warehouse-c", "loc18">>,
      <<"warehouse-d", "loc3">>, <<"warehouse-d", "loc4">>, <<"warehouse-d", "loc7">>,
      <<"warehouse-e", "loc12">>, <<"warehouse-e", "loc15">>, <<"warehouse-e", "loc19">>,
      <<"loc1", "loc2">>, <<"loc1", "loc5">>, <<"loc1", "loc8">>,
      <<"loc2", "loc3">>, <<"loc2", "loc6">>,
      <<"loc3", "loc4">>, <<"loc3", "loc7">>,
      <<"loc4", "loc7">>, <<"loc4", "loc11">>,
      <<"loc5", "loc6">>, <<"loc5", "loc8">>, <<"loc5", "loc9">>,
      <<"loc6", "loc9">>, <<"loc6", "loc20">>,
      <<"loc7", "loc10">>, <<"loc7", "loc11">>,
      <<"loc8", "loc12">>,
      <<"loc9", "loc12">>, <<"loc9", "loc13">>, <<"loc9", "loc20">>,
      <<"loc10", "loc13">>, <<"loc10", "loc14">>, <<"loc10", "loc20">>,
      <<"loc11", "loc14">>,
      <<"loc12", "loc15">>, <<"loc12", "loc13">>,
      <<"loc13", "loc16">>, <<"loc13", "loc17">>,
      <<"loc14", "loc17">>, <<"loc14", "loc18">>,
      <<"loc15", "loc16">>, <<"loc15", "loc19">>,
      <<"loc16", "loc17">>, <<"loc16", "loc19">>,
      <<"loc17", "loc18">>, <<"loc17", "loc19">>,
      <<"loc18", "loc19">>,
      <<"loc20", "loc10">>, <<"loc20", "loc13">>>>

\* the ids of the built-in nodes
locationIds == {locations[i].id : i \in 1..Len(locations)}

\* nodeMap.get(id)
nodeOf(id) == locations[CHOOSE i \in 1..Len(locations) : locations[i].id = id]

\* Math.round(Math.sqrt(n)) of a natural number n below 2^20
RoundSqrt(n) ==
    CHOOSE r \in 0..1024 : (2 * r - 1) * (2 * r - 1) <= 4 * n /\ 4 * n < (2 * r + 1) * (2 * r + 1)

\* Math.round of the straight-line distance of two nodes
roundedDistance(a, b) == RoundSqrt((a.x - b.x) * (a.x - b.x) + (a.y - b.y) * (a.y - b.y))

\* Math.floor(Math.random() * 11) + 5 for the i-th edge of a load: the loads the
\* model draws differ in where the cycle 5..15 starts
randomCapacity(draw, i) == 5 + ((draw + i) % 11)

\* the edge built for one connection
builtEdge(connection, capacity) ==
    [source |-> connection[1], target |-> connection[2],
     weight |-> roundedDistance(nodeOf(connection[1]), nodeOf(connection[2])),
     capacity |-> capacity]

InitLoad ==
    /\ edges = <<>>
    /\ \E draw \in 0..MaxDraw : call = [name |-> "connections.map", draw |-> draw]
    /\ result = Idle
    /\ ek = EkIdle
    /\ orders = <<>>
    /\ combinedResult = NullResult
    /\ activeMap = Null
    /\ InitRest

\* one pass of connections.map
BuildEdge ==
    /\ Len(edges) < Len(connections)
    /\ edges' = Append(edges, builtEdge(connections[Len(edges) + 1],
                                        randomCapacity(call.draw, Len(edges) + 1)))
    /\ UNCHANGED <<call, result, ek, orders, combinedResult, activeMap, pageRest>>

NextLoad == BuildEdge

SpecLoad == InitLoad /\ [][NextLoad]_vars

-----------------------------------------------------------------------------
(* Claims on dijkstra *)

DijkstraReturned == call.name = "dijkstra"

\* C1: for existing start and end, dijkstra returns the minimum sum of edge weights
\* over the paths from start to end when end is reachable, and the no-result
\* value when it is not.
C1_ShortestPathCorrect ==
    (DijkstraReturned /\ call.startId \in NodeSet /\ call.endId \in NodeSet) =>
        IF Reachable(edges, call.startId, call.endId)
        THEN /\ result.found
             /\ result.distance = MinDistance(edges, call.startId, call.endId)
        ELSE result = NotFound

\* C1 witness: a detour over an intermediate node is strictly shorter than the
\* direct edge, and dijkstra returned the detour.
C1_Witness ==
    /\ DijkstraReturned
    /\ call.startId \in NodeSet /\ call.endId \in NodeSet
    /\ Adjacent(edges, call.startId, call.endId)
    /\ result.found
    /\ Len(result.path) >= 3
    /\ result.distance < MinOf(WeightsOf(edges, call.startId, call.endId))

\* C9: dijkstra(g, a, b) and dijkstra(g, b, a) both return no result or return
\* the same distance.
C9_ShortestPathSymmetric ==
    (DijkstraReturned /\ call.startId \in NodeSet /\ call.endId \in NodeSet) =>
        LET back == dijkstra(edges, call.endId, call.startId)
        IN /\ back.found = result.found
           /\ result.found => back.distance = result.distance

\* the sequence p read from its last element to its first
Mirror(p) == [i \in 1..Len(p) |-> p[Len(p) + 1 - i]]

\* C9 witness: the two directions return the same distance over different roads.
C9_Witness ==
    /\ DijkstraReturned
    /\ call.startId \in NodeSet /\ call.endId \in NodeSet
    /\ result.found
    /\ result.distance > 0
    /\ LET back == dijkstra(edges, call.endId, call.startId)
       IN back.found /\ back.path # Mirror(result.path)

-----------------------------------------------------------------------------
(* Claims on edmondsKarp *)

EkReturned == call.name = "edmondsKarp" /\ ek.pc = "done"

\* C2: for distinct existing s and t, edmondsKarp returns the capacity of a minimum
\* s-t cut, every edge counting with its capacity in both directions; a graph
\* of one edge of capacity C between s and t gives C.
C2_MaxFlowIsMinCut ==
    (EkReturned /\ call.sourceId # call.sinkId) =>
        /\ result = MinCut(edges, call.sourceId, call.sinkId)
        /\ (Len(edges) = 1 /\ Adjacent(edges, call.sourceId, call.sinkId))
              => result = edges[1].capacity

\* C2 witness: a run that returned a flow larger than any single capacity after
\* several augmentations, with the source's edges not saturated (the cut lies
\* elsewhere).
C2_Witness ==
    /\ EkReturned
    /\ call.sourceId # call.sinkId
    /\ result > MaxCap
    /\ result < CutCapacity(edges, {call.sourceId})

\* C10: edmondsKarp(g, s, t) = edmondsKarp(g, t, s).
C10_MaxFlowSymmetric ==
    EkReturned => result = edmondsKarp(edges, call.sinkId, call.sourceId)

\* C10 witness: a positive flow between two distinct nodes, whose two ends
\* have different total capacity.
C10_Witness ==
    /\ EkReturned
    /\ call.sourceId # call.sinkId
    /\ result > 0
    /\ CutCapacity(edges, {call.sourceId}) # CutCapacity(edges, {call.sinkId})

-----------------------------------------------------------------------------
(* Claims on solveTsp *)

TspReturned == call.name = "solveTsp"

NonDegenerate == call.warehousesToVisit # <<>> \/ call.customersToVisit # <<>>

\* the state of the call's tour when phase 2 ends
Visited == tspVisit(edges, call.startDepot, call.warehousesToVisit, call.customersToVisit)

\* the positions of x in the sequence p
Occurrences(p, x) == {i \in 1..Len(p) : p[i] = x}

\* C3: for an input with at least one required warehouse or customer, every two
\* consecutive nodes of the returned path are joined by an edge of the graph.
C3_PathIsWalk ==
    (TspReturned /\ NonDegenerate) => IsWalk(edges, result.path)

\* C3 witness: a returned tour that runs through a node which is neither the
\* depot nor a required stop.
C3_Witness ==
    /\ TspReturned /\ NonDegenerate
    /\ Len(result.path) >= 5
    /\ \E i \in 1..Len(result.path) :
          /\ result.path[i] # call.startDepot
          /\ \A k \in 1..Len(Visited.stops) : Visited.stops[k].stop # result.path[i]

\* C4: for a non-degenerate input the path starts and ends at the depot, and the
\* leg from the last stop back to the depot is part of the path and of the distance.
C4_RoundTrip ==
    (TspReturned /\ NonDegenerate) =>
        LET v == Visited
            n == Len(v.path)
            back == SubSeq(result.path, n, Len(result.path))
        IN /\ result.path[1] = call.startDepot
           /\ result.path[Len(result.path)] = call.startDepot
           /\ Len(result.path) >= n
           /\ SubSeq(result.path, 1, n) = v.path
           /\ back[1] = v.currentLoc
           /\ IsWalk(edges, back)
           /\ result.distance = v.distance + WalkWeight(edges, back, 1)
           /\ (v.currentLoc # call.startDepot) =>
                 WalkWeight(edges, back, 1) = MinDistance(edges, v.currentLoc, call.startDepot)

\* C4 witness: a tour whose last stop is not the depot and lies more than one
\* edge away from it.
C4_Witness ==
    /\ TspReturned /\ NonDegenerate
    /\ Visited.currentLoc # call.startDepot
    /\ Len(result.path) >= Len(Visited.path) + 2

\* the calls C5 is about: exactly one morning and one afternoon customer, at two
\* different nodes, both reachable from the depot
MorningAfternoonCall ==
    /\ TspReturned
    /\ call.startDepot \in NodeSet
    /\ Len(call.customersToVisit) = 2
    /\ \E i, j \in 1..2 :
          /\ call.customersToVisit[i].timeWindow = "morning"
          /\ call.customersToVisit[j].timeWindow = "afternoon"
    /\ call.customersToVisit[1].address # call.customersToVisit[2].address
    /\ \A i \in 1..2 :
          /\ call.customersToVisit[i].address \in NodeSet
          /\ Reachable(edges, call.startDepot, call.customersToVisit[i].address)

MorningCustomer ==
    (CHOOSE c \in {call.customersToVisit[i] : i \in 1..2} : c.timeWindow = "morning").address

AfternoonCustomer ==
    (CHOOSE c \in {call.customersToVisit[i] : i \in 1..2} : c.timeWindow = "afternoon").address

\* C5 as stated: the morning customer appears in the returned path strictly before
\* the afternoon customer does.
C5_MorningFirstInPath ==
    MorningAfternoonCall =>
        MinOf(Occurrences(result.path, MorningCustomer))
            < MinOf(Occurrences(result.path, AfternoonCustomer))

\* C5 amended: the morning customer is selected as a stop before the afternoon
\* customer, so the path reaches the morning customer before the position at which
\* it delivers to the afternoon customer; the afternoon customer may also occur
\* earlier in the path, as a node passed through.
C5_MorningStopFirst ==
    MorningAfternoonCall =>
        LET stops == Visited.stops
        IN \E i, j \in 1..Len(stops) :
              /\ i < j
              /\ stops[i].stop = MorningCustomer /\ stops[i].phase = "morning"
              /\ stops[j].stop = AfternoonCustomer /\ stops[j].phase = "remaining"
              /\ stops[i].at < stops[j].at
              /\ result.path[stops[i].at] = MorningCustomer
              /\ result.path[stops[j].at] = AfternoonCustomer
              /\ MinOf(Occurrences(result.path, MorningCustomer)) <= stops[i].at

\* C5 witness: the afternoon customer is nearer than the morning customer to the
\* location where phase 2 starts, and the morning customer is served first.
C5_Witness ==
    /\ MorningAfternoonCall
    /\ call.warehousesToVisit # <<>>
    /\ LET at == Visited.stops[1].stop
       IN /\ Visited.stops[1].phase = "pickup"
          /\ distMatrix(edges, at, AfternoonCustomer).distance
                < distMatrix(edges, at, MorningCustomer).distance
    /\ MinOf(Occurrences(result.path, MorningCustomer))
          < MinOf(Occurrences(result.path, AfternoonCustomer))

\* C6: with no warehouse and no customer, solveTsp returns the path
\* [depot, depot] and the distance 0, for every depot of the graph.
C6_DegenerateTour ==
    (TspReturned /\ ~NonDegenerate /\ call.startDepot \in NodeSet) =>
        result = [path |-> <<call.startDepot, call.startDepot>>, distance |-> 0]

\* C6 witness: the empty call on a depot that has roads.
C6_Witness ==
    /\ TspReturned /\ ~NonDegenerate
    /\ call.startDepot \in NodeSet
    /\ \E n \in NodeSet : Adjacent(edges, call.startDepot, n)
    /\ result.distance = 0

-----------------------------------------------------------------------------
(* Claims on unknown identifiers *)

\* the call was given an identifier that is no node of the graph
UnknownSupplied ==
    \/ /\ DijkstraReturned
       /\ (call.startId \notin NodeSet \/ call.endId \notin NodeSet)
    \/ /\ TspReturned
       /\ \/ call.startDepot \notin NodeSet
          \/ \E i \in 1..Len(call.warehousesToVisit) : call.warehousesToVisit[i] \notin NodeSet
          \/ \E i \in 1..Len(call.customersToVisit) :
                call.customersToVisit[i].address \notin NodeSet

\* the failure the error taxonomy names
UnknownNode == [error |-> "UnknownNode"]

\* C8 as stated: a call given an unknown identifier fails with UnknownNode.
C8_UnknownNodeFails == UnknownSupplied => result = UnknownNode

\* C8 amended: no call fails on an unknown identifier. dijkstra returns the
\* no-result value, the one it returns when there is no path (and the path [id]
\* with distance 0 when start and end are the same unknown id); solveTsp
\* returns the tour of the stops that are nodes, the others being skipped, and
\* the bare path [depot] with distance 0 when the depot is unknown or no stop is
\* a node ([depot, depot] for an unknown depot and no stop at all).
C8_UnknownNodeIsNoPath ==
    /\ (DijkstraReturned /\ UnknownSupplied) =>
          IF call.startId = call.endId
          THEN result = Found(<<call.startId>>, 0)
          ELSE result = NotFound
    /\ (TspReturned /\ UnknownSupplied) =>
          LET ws == SelectSeq(call.warehousesToVisit, LAMBDA w : w \in NodeSet)
              cs == SelectSeq(call.customersToVisit, LAMBDA c : c.address \in NodeSet)
          IN IF ~NonDegenerate
             THEN result = [path |-> <<call.startDepot, call.startDepot>>, distance |-> 0]
             ELSE IF call.startDepot \notin NodeSet \/ (ws = <<>> /\ cs = <<>>)
             THEN result = [path |-> <<call.startDepot>>, distance |-> 0]
             ELSE result = solveTsp(edges, call.startDepot, ws, cs)

\* C8 witness: a tour given an unknown customer, which still visits a stop that is
\* a node and comes back.
C8_Witness ==
    /\ TspReturned /\ UnknownSupplied
    /\ call.startDepot \in NodeSet
    /\ \E i \in 1..Len(call.customersToVisit) : call.customersToVisit[i].address \notin NodeSet
    /\ result.distance > 0
    /\ Len(result.path) >= 3

-----------------------------------------------------------------------------
(* Claims on the warehouse-batched strategy *)

\* the pending items of warehouse W over the orders, in order of the orders and of
\* the items within an order, as the lines a truck's load is reported in
RECURSIVE PendingItems(_, _)
PendingItems(os, W) ==
    IF os = <<>> THEN <<>>
    ELSE LET o == Head(os)
             own == SelectSeq(o.items, LAMBDA item : item.warehouseId = W)
         IN [i \in 1..Len(own) |->
                [productName |-> own[i].name, orderId |-> o.id, customerAddress |-> o.address]]
            \o PendingItems(Tail(os), W)

\* ceil(N / K): the least c with c * K >= N
CeilDiv(N, K) == CHOOSE c \in 0..N : c * K >= N /\ \A d \in 0..(c - 1) : d * K < N

\* the batch results of warehouse W in the stored comparison
BatchesOf(W) ==
    SelectSeq(combinedResult.warehouseBatchResults, LAMBDA b : b.warehouseId = W)

\* the sizes of the loads of the trucks of one batch result
LoadSizes(b) == [i \in 1..Len(b.routes) |-> Len(b.routes[i].items)]

\* C7: after a run, a warehouse with N pending items over all active orders has
\* exactly ceil(N / TRUCK_CAPACITY) trucks in the warehouse-batched strategy; the
\* loads are consecutive chunks of the warehouse's item list (their concatenation
\* is that list, so every pending item is carried exactly once), each load holds
\* between 1 and TRUCK_CAPACITY items, and 12 items give the loads [10, 2].
C7_BatchingTruckCount ==
    combinedResult.present =>
        \A W \in WarehouseNodes :
            LET pending == PendingItems(orders, W)
                N == Len(pending)
                batches == BatchesOf(W)
            IN IF N = 0 THEN batches = <<>>
               ELSE /\ Len(batches) = 1
                    /\ Len(batches[1].routes) = CeilDiv(N, TRUCK_CAPACITY)
                    /\ \A i \in 1..Len(batches[1].routes) :
                          /\ batches[1].routes[i].truck = i
                          /\ Len(batches[1].routes[i].items) \in 1..TRUCK_CAPACITY
                    /\ Flatten([i \in 1..Len(batches[1].routes) |-> batches[1].routes[i].items])
                          = pending
                    /\ (N = 12 /\ TRUCK_CAPACITY = 10) => LoadSizes(batches[1]) = <<10, 2>>

\* C7 witness: two orders of 6 items each from one warehouse, run: that warehouse
\* sends two trucks with loads of 10 and 2 items.
C7_Witness ==
    /\ combinedResult.present
    /\ Len(orders) = 2
    /\ \E W \in WarehouseNodes :
          /\ \A k \in 1..2 :
                Len(SelectSeq(orders[k].items, LAMBDA item : item.warehouseId = W)) = 6
          /\ Len(BatchesOf(W)) = 1
          /\ LoadSizes(BatchesOf(W)[1]) = <<10, 2>>

-----------------------------------------------------------------------------
(* Claims on the cost model *)

\* the routes a strategy charges a truck for, as the distances of the charged routes:
\* direct-ship charges the shipments that have a path, the tours are always charged
ChargedDistances(strategy) ==
    IF strategy = "direct-ship"
    THEN LET all == Flatten([k \in 1..Len(combinedResult.allOrderShipments) |->
                               combinedResult.allOrderShipments[k].shipments])
             routed == SelectSeq(all, LAMBDA sh : sh.path.found)
         IN [i \in 1..Len(routed) |-> routed[i].path.distance]
    ELSE IF strategy = "consolidated"
    THEN <<combinedResult.consolidatedTspResult.route.distance>>
    ELSE LET all == Flatten([w \in 1..Len(combinedResult.warehouseBatchResults) |->
                               combinedResult.warehouseBatchResults[w].routes])
         IN [i \in 1..Len(all) |-> all[i].route.distance]

Strategies == {"direct-ship", "consolidated", "warehouse-batched"}

\* the total cost of a strategy at the rates (perKm, perTruck), its routes held fixed
TotalCostAt(strategy, perKm, perTruck) ==
    LET ds == ChargedDistances(strategy)
    IN SumSeq([i \in 1..Len(ds) |-> routeCostAt(ds[i], perKm, perTruck)])

\* the total cost the run stored for a strategy
StoredTotalCost(strategy) ==
    IF strategy = "direct-ship" THEN combinedResult.totalCostStrategy1
    ELSE IF strategy = "consolidated" THEN combinedResult.consolidatedTspResult.cost
    ELSE combinedResult.totalCostStrategy3

RateSteps == 1..MaxRateStep

\* C11 as stated: every strategy's total cost strictly increases with the per-km
\* rate and with the fixed per-truck cost, the routes and the truck count held fixed.
C11_CostStrictlyIncreases ==
    combinedResult.present =>
        \A strategy \in Strategies, step \in RateSteps :
            /\ TotalCostAt(strategy, COST_PER_KM + step, COST_PER_TRUCK)
                  > TotalCostAt(strategy, COST_PER_KM, COST_PER_TRUCK)
            /\ TotalCostAt(strategy, COST_PER_KM, COST_PER_TRUCK + step)
                  > TotalCostAt(strategy, COST_PER_KM, COST_PER_TRUCK)

\* C11, amended: the stored total of every strategy is the sum of the cost formula
\* over its charged routes; raising the per-km rate by a step raises the total by
\* step times the charged distance, so strictly exactly when that distance is
\* positive; raising the per-truck cost by a step raises the total by step times
\* the number of charged trucks, so strictly exactly when a truck is charged.
C11_CostIncreasesWithDistanceAndTrucks ==
    combinedResult.present =>
        \A strategy \in Strategies, step \in RateSteps :
            LET base == TotalCostAt(strategy, COST_PER_KM, COST_PER_TRUCK)
                ds == ChargedDistances(strategy)
            IN /\ StoredTotalCost(strategy) = base
               /\ TotalCostAt(strategy, COST_PER_KM + step, COST_PER_TRUCK)
                     = base + step * SumSeq(ds)
               /\ TotalCostAt(strategy, COST_PER_KM, COST_PER_TRUCK + step)
                     = base + step * Len(ds)
               /\ strategy # "direct-ship" => Len(ds) > 0

\* C11 witness: a stored result in which every strategy charges a truck over a
\* positive distance, so both rates raise every total.
C11_Witness ==
    /\ combinedResult.present
    /\ \A strategy \in Strategies :
          /\ SumSeq(ChargedDistances(strategy)) > 0
          /\ TotalCostAt(strategy, COST_PER_KM + 1, COST_PER_TRUCK) > StoredTotalCost(strategy)
          /\ TotalCostAt(strategy, COST_PER_KM, COST_PER_TRUCK + 1) > StoredTotalCost(strategy)

-----------------------------------------------------------------------------
(* Claims on unreachable stops *)

\* the stops the call requires: its warehouses and the addresses of its customers
RequiredStops ==
    {call.warehousesToVisit[i] : i \in 1..Len(call.warehousesToVisit)}
        \cup {call.customersToVisit[i].address : i \in 1..Len(call.customersToVisit)}

\* x can be reached from the depot of the call over the roads
ReachableFromDepot(x) ==
    \/ x = call.startDepot
    \/ /\ x \in NodeSet
       /\ call.startDepot \in NodeSet
       /\ Reachable(edges, call.startDepot, x)

\* the stops the tour of the call selected, phase after phase
SelectedStops == {Visited.stops[i].stop : i \in 1..Len(Visited.stops)}

\* C12: a tour with unreachable required stops is still returned: its distance is
\* finite, every required stop that is reachable from the depot is selected as a
\* stop and lies on the path, and no unreachable stop is selected or lies on it.
C12_UnreachableSkipped ==
    (TspReturned /\ NonDegenerate) =>
        LET selected == SelectedStops
        IN /\ result.distance \in 0..(Infinity - 1)
           /\ \A x \in RequiredStops :
                 IF ReachableFromDepot(x)
                 THEN x \in selected /\ Occurrences(result.path, x) # {}
                 ELSE x \notin selected /\ Occurrences(result.path, x) = {}

\* C12 witness: a tour over known nodes with a required stop that is unreachable
\* and another, away from the depot, that is reachable and visited.
C12_Witness ==
    /\ TspReturned
    /\ call.startDepot \in NodeSet
    /\ \E x \in RequiredStops \cap NodeSet : ~ReachableFromDepot(x)
    /\ \E y \in RequiredStops :
          y # call.startDepot /\ ReachableFromDepot(y) /\ Occurrences(result.path, y) # {}
    /\ result.distance > 0

-----------------------------------------------------------------------------
(* Claims on the max-flow diagnostic *)

\* the warehouses that source an item of the primary order and have a path to its
\* destination
PrimaryCandidates ==
    {w \in {orders[1].items[i].warehouseId : i \in 1..Len(orders[1].items)} :
        w \in NodeSet /\ Reachable(edges, w, orders[1].address)}

\* the candidates at the least shortest-path distance from the destination
PrimaryNearest ==
    {w \in PrimaryCandidates :
        \A v \in PrimaryCandidates :
            MinDistance(edges, w, orders[1].address) <= MinDistance(edges, v, orders[1].address)}

C13_AbsentReached ==
    /\ combinedResult.present
    /\ PrimaryCandidates = {}
    /\ ~combinedResult.maxFlowToFirstCustomer.present

-----------------------------------------------------------------------------
(* Claims on the direct-ship strategy *)

\* the orders that hold items, in the order of the order list
ActiveOrders == SelectSeq(orders, LAMBDA o : o.items # <<>>)

\* the warehouses that source at least one item of order o
SourcesOf(o) == {o.items[i].warehouseId : i \in 1..Len(o.items)}

\* all shipments of the stored direct-ship strategy
AllShipments ==
    Flatten([k \in 1..Len(combinedResult.allOrderShipments) |->
                combinedResult.allOrderShipments[k].shipments])

\* shipment sh of order o is routed by a shortest path from its warehouse to the
\* address of the order, or has no path when there is none
RoutedByShortestPath(o, sh) ==
    IF Reachable(edges, sh.warehouseId, o.address)
    THEN /\ sh.path.found
         /\ sh.path.distance = MinDistance(edges, sh.warehouseId, o.address)
         /\ sh.path.path[1] = sh.warehouseId
         /\ sh.path.path[Len(sh.path.path)] = o.address
         /\ IsWalk(edges, sh.path.path)
         /\ WalkWeight(edges, sh.path.path, 1) = sh.path.distance
    ELSE ~sh.path.found

\* the stored direct-ship strategy has one entry per active order and, in it, one
\* shipment per warehouse that sources an item of the order, carrying those items
OneShipmentPerPair ==
    /\ Len(combinedResult.allOrderShipments) = Len(ActiveOrders)
    /\ \A k \in 1..Len(ActiveOrders) :
          LET o == ActiveOrders[k]
              e == combinedResult.allOrderShipments[k]
          IN /\ e.orderId = o.id /\ e.address = o.address
             /\ {e.shipments[i].warehouseId : i \in 1..Len(e.shipments)} = SourcesOf(o)
             /\ Len(e.shipments) = Cardinality(SourcesOf(o))
             /\ \A i \in 1..Len(e.shipments) :
                   /\ e.shipments[i].items
                         = SelectSeq(o.items, LAMBDA item :
                                        item.warehouseId = e.shipments[i].warehouseId)
                   /\ RoutedByShortestPath(o, e.shipments[i])

\* C14 as stated: one shipment per (active order, source warehouse), routed by a
\* shortest path, and the total cost is the sum over all shipments of
\* distance x per-km rate + fixed per-truck cost (a shipment without a path has no
\* distance: it is counted with distance 0, the reading most favourable to the claim).
C14_DirectShipTotalOverAll ==
    combinedResult.present =>
        /\ OneShipmentPerPair
        /\ combinedResult.totalCostStrategy1
              = SumSeq([i \in 1..Len(AllShipments) |->
                           routeCost(IF AllShipments[i].path.found
                                     THEN AllShipments[i].path.distance ELSE 0)])

\* C14, amended: one shipment per (active order, source warehouse), routed by a
\* shortest path; a shipment with a path costs distance x per-km rate + fixed
\* per-truck cost, a shipment without a path costs 0, the total of an order is the
\* sum of its shipments' costs and the strategy's total the sum over the orders.
C14_DirectShipPerPair ==
    combinedResult.present =>
        /\ OneShipmentPerPair
        /\ \A i \in 1..Len(AllShipments) :
              AllShipments[i].cost
                 = IF AllShipments[i].path.found
                   THEN AllShipments[i].path.distance * COST_PER_KM + COST_PER_TRUCK
                   ELSE 0
        /\ \A k \in 1..Len(combinedResult.allOrderShipments) :
              LET e == combinedResult.allOrderShipments[k]
              IN e.totalCost = SumSeq([i \in 1..Len(e.shipments) |-> e.shipments[i].cost])
        /\ combinedResult.totalCostStrategy1
              = SumSeq([i \in 1..Len(AllShipments) |-> AllShipments[i].cost])

\* C14 witness: two active orders, one of them with two items of one warehouse and
\* the other drawing on both warehouses, all shipments with a path.
C14_Witness ==
    /\ combinedResult.present
    /\ Len(ActiveOrders) = 2
    /\ \E k \in 1..2 : Len(ActiveOrders[k].items) = 2 /\ Cardinality(SourcesOf(ActiveOrders[k])) = 1
    /\ \E k \in 1..2 : Cardinality(SourcesOf(ActiveOrders[k])) = 2
    /\ Len(AllShipments) = 3
    /\ \A i \in 1..3 : AllShipments[i].path.found /\ AllShipments[i].cost > COST_PER_TRUCK

-----------------------------------------------------------------------------
(* Claims on the comparison of the strategies *)

\* all truck routes of the stored warehouse-batched strategy
AllBatchRoutes ==
    Flatten([w \in 1..Len(combinedResult.warehouseBatchResults) |->
                combinedResult.warehouseBatchResults[w].routes])

\* C15 as stated: direct-ship has at least as many shipments as the consolidated
\* and the warehouse-batched strategy have trucks, and a total cost at least theirs.
C15_DirectShipHighest ==
    combinedResult.present =>
        /\ Len(AllShipments) >= 1
        /\ Len(AllShipments) >= Len(AllBatchRoutes)
        /\ combinedResult.totalCostStrategy1 >= combinedResult.consolidatedTspResult.cost
        /\ combinedResult.totalCostStrategy1 >= combinedResult.totalCostStrategy3

\* C15, amended: direct-ship has at least as many shipments as the consolidated
\* strategy has trucks (one) and as the warehouse-batched strategy has warehouses;
\* it has at least as many shipments as that strategy has trucks when no warehouse
\* has more than TRUCK_CAPACITY pending items. Nothing is claimed of the costs.
C15_DirectShipCounts ==
    combinedResult.present =>
        /\ Len(AllShipments) >= 1
        /\ Len(AllShipments) >= Len(combinedResult.warehouseBatchResults)
        /\ (\A W \in WarehouseNodes : Len(PendingItems(orders, W)) <= TRUCK_CAPACITY)
              => Len(AllShipments) >= Len(AllBatchRoutes)

\* C15 witness: one order of more than TRUCK_CAPACITY items of one warehouse: one
\* direct shipment against two batched trucks, and a direct-ship total below the
\* totals of both other strategies.
C15_Witness ==
    /\ combinedResult.present
    /\ Len(AllShipments) = 1
    /\ Len(AllBatchRoutes) = 2
    /\ combinedResult.totalCostStrategy1 < combinedResult.consolidatedTspResult.cost
    /\ combinedResult.totalCostStrategy1 < combinedResult.totalCostStrategy3

-----------------------------------------------------------------------------
(* Claims on the consolidated strategy *)

\* the depot of the consolidated tour
ConsolidatedDepot == "warehouse-a"

\* C16: the stored consolidated result is the one tour from the fixed depot over
\* the source warehouses of all items of the active orders (each once) and the
\* destination and time window of every active order, and its cost is the tour's
\* distance x per-km rate + one fixed per-truck cost.
C16_ConsolidatedOneTour ==
    combinedResult.present =>
        LET ws == combinedResult.requiredWarehousesForTsp
            cs == combinedResult.deliveryAddressesForTsp
        IN /\ {ws[i] : i \in 1..Len(ws)} = UNION {SourcesOf(ActiveOrders[k]) : k \in 1..Len(ActiveOrders)}
           /\ \A i, j \in 1..Len(ws) : i # j => ws[i] # ws[j]
           /\ cs = [k \in 1..Len(ActiveOrders) |->
                       [address |-> ActiveOrders[k].address,
                        timeWindow |-> ActiveOrders[k].timeWindow]]
           /\ combinedResult.consolidatedTspResult.route
                 = solveTsp(edges, ConsolidatedDepot, ws, cs)
           /\ combinedResult.consolidatedTspResult.cost
                 = combinedResult.consolidatedTspResult.route.distance * COST_PER_KM
                      + COST_PER_TRUCK

\* C16 witness: two active orders with different addresses and time windows drawing
\* on both warehouses, served by one tour that leaves warehouse-a and comes back.
C16_Witness ==
    /\ combinedResult.present
    /\ Len(ActiveOrders) = 2
    /\ ActiveOrders[1].address # ActiveOrders[2].address
    /\ ActiveOrders[1].timeWindow # ActiveOrders[2].timeWindow
    /\ Len(combinedResult.requiredWarehousesForTsp) = 2
    /\ combinedResult.consolidatedTspResult.route.distance > 0
    /\ combinedResult.consolidatedTspResult.route.path[1] = ConsolidatedDepot
    /\ combinedResult.consolidatedTspResult.cost > COST_PER_TRUCK

-----------------------------------------------------------------------------
(* Claims on the inputs of the computations *)

-----------------------------------------------------------------------------
(* Claims on the order of the computations of a run *)

\* C18: the computations of one run share no mutable state: in whatever order the
\* blocks of the three strategies and of the max-flow analysis advance, the result
\* stored at the end is the one the sequential order of the code stores.
C18_AnyOrderSameResult ==
    run.pc = "done" => combinedResult = runCombinedOptimization(edges, orders)

\* a run of two orders and two warehouses has stored its result after a block had
\* overtaken an earlier one
C18_Witness ==
    /\ run.pc = "done"
    /\ run.outOfOrder
    /\ combinedResult.present
    /\ Len(combinedResult.allOrderShipments) = 2
    /\ Len(combinedResult.warehouseBatchResults) = 2
    /\ combinedResult.maxFlowToFirstCustomer.present

-----------------------------------------------------------------------------
(* Claims on the stored comparison result *)

\* C19: the comparison result is rebuilt as a whole: every step that stores a
\* result stores either none or the result of one run on the order list and the
\* edge list of that step, so the stored result never mixes fields of two runs.
C19_ResultRebuiltWhole ==
    [][combinedResult' # combinedResult
       => (\/ combinedResult' = NullResult
           \/ /\ combinedResult' = runCombinedOptimization(edges, orders)
              /\ edges' = edges
              /\ orders' = orders)]_vars

\* the effect has rebuilt the stored result under simulated traffic, and traffic
\* has changed it
C19_Witness ==
    /\ combinedResult.present
    /\ edges # initialEdges
    /\ ~effectPending
    /\ combinedResult = runCombinedOptimization(edges, orders)
    /\ combinedResult # runCombinedOptimization(initialEdges, orders)

-----------------------------------------------------------------------------
(* Claims on the AI handlers *)

\* the busy flag of a flow
busyOf(f) ==
    CASE f = "forecastDemand" -> isForecasting
      [] f = "predictDeliveryTimes" -> isPredicting
      [] f = "proposeOptimizedRoute" -> isOptimizing

\* the output of a flow
outputOf(f) ==
    CASE f = "forecastDemand" -> stockRebalance
      [] f = "predictDeliveryTimes" -> deliveryPredictions
      [] f = "proposeOptimizedRoute" -> aiOptimizedRoute

\* C20: a rejection of forecastDemand, predictDeliveryTimes or proposeOptimizedRoute
\* leaves the core alone: the step in which the flow rejects and the step in which
\* the handler takes the rejection change neither the stored result nor the orders
\* nor the edges, the output of the flow is empty from the rejection until the
\* handler has returned, and the busy flag of the flow is eventually reset.
C20_AiFailureContained ==
    /\ [][\A f \in Flows :
             (requests[f].status = "rejected" \/ requests'[f].status = "rejected")
             => /\ combinedResult' = combinedResult
                /\ orders' = orders
                /\ edges' = edges
                /\ outputOf(f) = NoOutput
                /\ outputOf(f)' = NoOutput]_vars
    /\ \A f \in Flows : (requests[f].status = "rejected") ~> ~busyOf(f)

\* a flow has rejected while its handler is busy and a result of a run is stored
C20_Witness ==
    /\ combinedResult.present
    /\ \E f \in Flows : requests[f].status = "rejected" /\ busyOf(f)
    /\ requests["predictDeliveryTimes"].status = "rejected"

-----------------------------------------------------------------------------
(* Claims on the built-in graph *)

\* the unordered pair an edge joins
pairOfEdge(e) == {e.source, e.target}

\* C21: the built-in edge list satisfies the edge invariant: every edge joins two
\* distinct existing nodes, and no unordered pair of nodes is listed more than once.
C21_EdgeInvariant ==
    /\ \A i \in 1..Len(edges) :
          /\ edges[i].source # edges[i].target
          /\ edges[i].source \in locationIds
          /\ edges[i].target \in locationIds
    /\ \A i, j \in 1..Len(edges) : i # j => pairOfEdge(edges[i]) # pairOfEdge(edges[j])

-----------------------------------------------------------------------------
(* Claims on the traffic buttons *)

\* es lists the roads of the initial edge list, in its order, none of them faster
SameRoadsNoFaster(es) ==
    /\ Len(es) = Len(initialEdges)
    /\ \A i \in 1..Len(initialEdges) :
          /\ es[i].source = initialEdges[i].source
          /\ es[i].target = initialEdges[i].target
          /\ es[i].capacity = initialEdges[i].capacity
          /\ es[i].weight >= initialEdges[i].weight

\* C22: Simulate Traffic stores a new edge list built from the initial edges, with
\* their endpoints and capacities and no weight below the initial one; Reset
\* Traffic stores exactly the initial edges; so whenever no traffic is simulated,
\* after any sequence of the two, the edges are the initial ones.
C22_TrafficKeepsInitialEdges ==
    /\ [](~isTrafficSimulated => edges = initialEdges)
    /\ [][edges' # edges
          => \/ ~isTrafficSimulated' /\ edges' = initialEdges
             \/ isTrafficSimulated' /\ ~isTrafficSimulated /\ SameRoadsNoFaster(edges')]_vars

\* traffic is simulated and has slowed a road
C22_Witness ==
    /\ isTrafficSimulated
    /\ SameRoadsNoFaster(edges)
    /\ \E i \in 1..Len(edges) : edges[i].weight > initialEdges[i].weight

-----------------------------------------------------------------------------
(* Claims on the order of the stops of a tour *)

\* the phases of a tour, in the order of the code
PhaseRank(phase) ==
    CASE phase = "pickup" -> 1
      [] phase = "morning" -> 2
      [] phase = "remaining" -> 3

\* the stops a phase of the call may select
PoolOf(phase) ==
    CASE phase = "pickup" ->
            {call.warehousesToVisit[i] : i \in 1..Len(call.warehousesToVisit)}
      [] phase = "morning" ->
            {call.customersToVisit[i].address :
                i \in {k \in 1..Len(call.customersToVisit) :
                          call.customersToVisit[k].timeWindow = "morning"}}
      [] phase = "remaining" ->
            {call.customersToVisit[i].address :
                i \in {k \in 1..Len(call.customersToVisit) :
                          call.customersToVisit[k].timeWindow \in {"afternoon", "any"}}}

\* the location the j-th stop of a tour is selected from
SelectedFrom(stops, j) == IF j = 1 THEN call.startDepot ELSE stops[j - 1].stop

\* the stops of the phase of the j-th stop that are still unvisited when it is selected
Unvisited(stops, j) ==
    PoolOf(stops[j].phase)
        \ {stops[i].stop : i \in {k \in 1..(j - 1) : stops[k].phase = stops[j].phase}}

\* C23: the stops are selected in phase order: warehouses, then morning customers,
\* then the afternoon and any-time customers; every reachable stop of a phase is
\* selected in that phase, so every reachable warehouse precedes every customer
\* and every reachable morning customer precedes every afternoon or any-time one;
\* an afternoon or any-time customer is selected when no other unvisited afternoon
\* or any-time customer is nearer, whatever the windows of the two.
C23_PhaseOrder ==
    (TspReturned /\ NonDegenerate) =>
        LET stops == Visited.stops
        IN /\ \A i \in 1..Len(stops) : stops[i].stop \in PoolOf(stops[i].phase)
           /\ \A i, j \in 1..Len(stops) :
                 i < j => PhaseRank(stops[i].phase) <= PhaseRank(stops[j].phase)
           /\ \A phase \in {"pickup", "morning", "remaining"} :
                 \A x \in PoolOf(phase) :
                    ReachableFromDepot(x)
                    => \E i \in 1..Len(stops) : stops[i].stop = x /\ stops[i].phase = phase
           /\ \A j \in 1..Len(stops) :
                 stops[j].phase = "remaining"
                 => \A x \in Unvisited(stops, j) :
                       distMatrix(edges, SelectedFrom(stops, j), stops[j].stop).distance
                          <= distMatrix(edges, SelectedFrom(stops, j), x).distance

\* C23 witness: after the pickup, an any-time customer is selected before an
\* afternoon customer that is farther away
C23_Witness ==
    /\ TspReturned
    /\ Len(Visited.stops) = 3
    /\ Visited.stops[1].phase = "pickup"
    /\ \E i, j \in 1..2 :
          /\ call.customersToVisit[i].timeWindow = "any"
          /\ call.customersToVisit[j].timeWindow = "afternoon"
          /\ Visited.stops[2].stop = call.customersToVisit[i].address
          /\ Visited.stops[3].stop = call.customersToVisit[j].address
          /\ distMatrix(edges, Visited.stops[1].stop, Visited.stops[2].stop).distance
                < distMatrix(edges, Visited.stops[1].stop, Visited.stops[3].stop).distance

-----------------------------------------------------------------------------
(* Claims on the nearest-neighbour selection *)

\* the time windows a phase of the customers serves
WindowsOf(phase) == IF phase = "morning" THEN {"morning"} ELSE {"afternoon", "any"}

\* the positions at which the input of the call lists the stop x of a phase
InputPositions(phase, x) ==
    IF phase = "pickup"
    THEN {i \in 1..Len(call.warehousesToVisit) : call.warehousesToVisit[i] = x}
    ELSE {i \in 1..Len(call.customersToVisit) :
             /\ call.customersToVisit[i].address = x
             /\ call.customersToVisit[i].timeWindow \in WindowsOf(phase)}

\* the place of the stop x in the input of the call
InputOrder(phase, x) == MinOf(InputPositions(phase, x))

\* the place of the stop x in the iteration order of the pool of its phase: the
\* input order, but in the merged pool every afternoon customer comes before every
\* any-time customer
PoolOrder(phase, x) ==
    IF phase = "remaining"
    THEN MinOf({(IF call.customersToVisit[i].timeWindow = "afternoon" THEN 0
                 ELSE Len(call.customersToVisit)) + i :
                   i \in InputPositions(phase, x)})
    ELSE InputOrder(phase, x)

\* the stops that are unvisited when the j-th stop is selected and as near as it is
Ties(stops, j) ==
    {x \in Unvisited(stops, j) :
        distMatrix(edges, SelectedFrom(stops, j), x).distance
           = distMatrix(edges, SelectedFrom(stops, j), stops[j].stop).distance}

\* every stop selected is a nearest unvisited stop of the pool of its phase
NearestSelected(stops) ==
    \A j \in 1..Len(stops) :
       \A x \in Unvisited(stops, j) :
          distMatrix(edges, SelectedFrom(stops, j), stops[j].stop).distance
             <= distMatrix(edges, SelectedFrom(stops, j), x).distance

\* the call of the worked example
LineCall ==
    /\ TspReturned
    /\ edges = LineGraph
    /\ call.startDepot = "warehouse-a"
    /\ call.warehousesToVisit = <<"warehouse-b">>
    /\ Len(call.customersToVisit) = 1
    /\ call.customersToVisit[1].address = "loc1"

-----------------------------------------------------------------------------
(* Claims on the time-window buckets *)

\* the addresses of the customers of the call
CustomerAddresses ==
    {call.customersToVisit[i].address : i \in 1..Len(call.customersToVisit)}

\* the positions at which the tour selects x as a delivery stop
Deliveries(stops, x) ==
    {i \in 1..Len(stops) : stops[i].stop = x /\ stops[i].phase # "pickup"}

\* C25: the buckets partition the customer stops: every distinct reachable customer
\* address is selected as a delivery stop exactly once per tour, also when several
\* customers share the address with different time windows.
C25_EachAddressOnce ==
    (TspReturned /\ NonDegenerate) =>
        LET stops == Visited.stops
        IN \A x \in CustomerAddresses :
              ReachableFromDepot(x) => Cardinality(Deliveries(stops, x)) = 1

-----------------------------------------------------------------------------
(* Claims on the run of edmondsKarp *)

\* the node indices reached from S over pairs with strictly positive residual capacity
RECURSIVE ResidualReach(_, _)
ResidualReach(capacity, S) ==
    LET T == S \cup {v \in NodeIdx : \E u \in S : capacity[u][v] > 0}
    IN IF T = S THEN S ELSE ResidualReach(capacity, T)

\* a source-to-sink path over strictly positive residual capacities, for breadth-first
\* search to find: the sink is another node than the source and is reached from it
ResidualPath(st) == st.sink # st.source /\ st.sink \in ResidualReach(st.capacity, {st.source})

\* C26: edmondsKarp terminates for every graph with positive integer capacities; with
\* source = sink or with the sink cut off from the source it returns 0; and a pass of
\* its loop ends the run exactly when no source-to-sink path over strictly positive
\* residual capacities is left.
C26_TerminatesWhenNoPath ==
    /\ (ek.pc = "loop") ~> (ek.pc = "done")
    /\ []((EkReturned /\ (call.sourceId = call.sinkId
                            \/ ~Reachable(edges, call.sourceId, call.sinkId)))
              => ek.maxFlow = 0)
    /\ [][ek.pc = "loop" => ((ek'.pc = "done") <=> ~ResidualPath(ek))]_ek

\* a run that augmented more than once and then returned
C26_Witness == EkReturned /\ ek.maxFlow >= 2 /\ ek.pathFlow = 1

\* an edmondsKarp run is under way or has returned
EkRunning == call.name = "edmondsKarp" /\ ek.pc \in {"loop", "done"}

\* the capacity of the edge joining nodes u and v (by index), 0 when none does
EdgeCapacity(u, v) ==
    LET joining == {i \in 1..Len(edges) : {edges[i].source, edges[i].target} = {Nodes[u], Nodes[v]}}
    IN IF joining = {} THEN 0 ELSE edges[CHOOSE i \in joining : TRUE].capacity

\* C28: throughout an edmondsKarp run, residual[u][v] + residual[v][u] keeps its initial
\* value for every pair of nodes (twice the edge capacity for an edge, 0 otherwise), no
\* residual capacity is negative, every augmentation adds a strictly positive
\* bottleneck to the flow, and the accumulated flow never decreases.
C28_ResidualsConserved ==
    /\ [](EkRunning =>
            \A u \in NodeIdx, v \in NodeIdx :
                /\ ek.capacity[u][v] + ek.capacity[v][u] = 2 * EdgeCapacity(u, v)
                /\ ek.capacity[u][v] >= 0)
    /\ [][ek.pc = "loop" =>
            /\ ek'.maxFlow >= ek.maxFlow
            /\ ek'.pc = "loop" => /\ ek'.pathFlow > 0
                                  /\ ek'.maxFlow = ek.maxFlow + ek'.pathFlow]_ek

\* a run after an augmentation: some residual capacity exceeds the capacity of its edge
C28_Witness ==
    /\ EkRunning
    /\ ek.maxFlow > 0
    /\ \E u \in NodeIdx, v \in NodeIdx :
          ek.capacity[u][v] > EdgeCapacity(u, v) /\ ek.capacity[v][u] = 0

-----------------------------------------------------------------------------
(* Claims on the distance of a tour *)

\* C27: for every non-degenerate input, the distance solveTsp returns is the sum of
\* the edge weights over the consecutive node pairs of the path it returns.
C27_DistanceIsPathWeight ==
    (TspReturned /\ NonDegenerate) =>
        /\ IsWalk(edges, result.path)
        /\ result.distance = WalkWeight(edges, result.path, 1)

\* a tour of two stops whose path runs through a node that is neither a stop nor
\* the depot, over roads of different weights
C27_Witness ==
    /\ TspReturned
    /\ Len(Visited.stops) = 2
    /\ \E i \in 1..Len(result.path) :
          result.path[i] \notin SelectedStops \cup {call.startDepot}
    /\ \E i \in 1..Len(edges), j \in 1..Len(edges) : edges[i].weight # edges[j].weight
    /\ result.distance >= 5

-----------------------------------------------------------------------------
(* Claims on the re-run after a traffic change *)

\* C29: when the edge list changes (Simulate Traffic or Reset Traffic) while a result is
\* stored, the optimization is re-run, so that eventually the stored result is the
\* one computed from the current edges and the current orders; a result is created
\* only by Run Simulation: not by a traffic change made while none is stored, and
\* not after Reset All.
C29_TrafficRerunsStoredResult ==
    /\ (effectPending /\ combinedResult.present)
          ~> (~effectPending /\ combinedResult = runCombinedOptimization(edges, orders))
    /\ [][(effectPending /\ combinedResult.present)
             => combinedResult' = runCombinedOptimization(edges', orders')]_vars
    /\ [][(~combinedResult.present /\ combinedResult'.present)
             => (~effectPending /\ edges' = edges /\ isTrafficSimulated' = isTrafficSimulated)]_vars

\* traffic has changed the edges under a stored result, which the new edges make stale
C29_Witness ==
    /\ effectPending
    /\ combinedResult.present
    /\ combinedResult # runCombinedOptimization(edges, orders)

-----------------------------------------------------------------------------
(* Claims on the snapshot behind the AI outputs *)

\* C30: the AI-derived outputs on display are computed from the edge snapshot that is
\* current while they are displayed: whatever the interleaving of runs, traffic
\* changes and AI requests, the strategy-4 routes and costs shown are the ones
\* post-processing yields on the current edges for some proposal, once the effect
\* of the last edge change has run.
C30_AiOutputsCurrent ==
    (aiOptimizedRoute.present /\ ~effectPending) =>
        \E truckRoutes \in TruckPlans :
            aiOptimizedRoute = Output(processedRoute(edges, truckRoutes))

====
